---- MODULE Spec2Model ----
(***************************************************************************)
(* Font Layout Table (FLT) engine of the m17n library: the command         *)
(* interpreter (run_rule, run_cond, run_otf, run_command), the stage       *)
(* pipeline (run_stages) and the top-level segmenter (mflt_run) of         *)
(* src/src/m17n-flt.c.                                                     *)
(*                                                                         *)
(* Glyph strings are sequences of glyph records; the C index idx is the    *)
(* sequence index idx + 1.  Character spans are the pair (from, to) of a   *)
(* glyph exactly as the code stores them.                                  *)
(***************************************************************************)
EXTENDS Integers, Sequences, FiniteSets, TLC

(* ------------------------------------------------------------------ *)
(* Bounds of the model                                                 *)
(* ------------------------------------------------------------------ *)
MaxUsed == 3
MaxSlack == 1

(* ------------------------------------------------------------------ *)
(* Program constants                                                   *)
(* ------------------------------------------------------------------ *)
NMATCH == 20
INVALID_CMD_ID == -1
CMD_ID_OFFSET_COMBINING == -16
CMD_ID_OFFSET_INDEX == -16777232
CMD_ID_COPY == -3
CMD_ID_REPEAT == -4
CMD_ID_CLUSTER_BEGIN == -5
CMD_ID_CLUSTER_END == -6
CMD_ID_SEPARATOR == -7
CMD_ID_LEFT_PADDING == -8
CMD_ID_RIGHT_PADDING == -9
\* One attempt more than the loop of mflt_run makes.
MaxAttemptsMut == 3 + 1
MaxAttempts == 3
AllocFactor == 4

CMD_ID_TO_COMBINING_CODE(id) == CMD_ID_OFFSET_COMBINING - id
COMBINING_CODE_TO_CMD_ID(code) == CMD_ID_OFFSET_COMBINING - code
CMD_ID_TO_INDEX(id) == CMD_ID_OFFSET_INDEX - id
INDEX_TO_CMD_ID(idx) == CMD_ID_OFFSET_INDEX - idx

(* ------------------------------------------------------------------ *)
(* Small arithmetic helpers                                            *)
(* ------------------------------------------------------------------ *)
Min2(a, b) == IF a < b THEN a ELSE b
Max2(a, b) == IF a > b THEN a ELSE b

\* C integer division truncates toward zero.
CDiv(a, b) == IF a >= 0 THEN a \div b ELSE -((-a) \div b)

\* The sequence s written out as a tuple, so that TLC holds it as one.
Tup(s) == s \o << >>

\* The elements lo .. hi-1 of a sequence indexed as in C (0-based).
Slice(s, lo, hi) == Tup([k \in 1..(hi - lo) |-> s[lo + k]])

RECURSIVE SetMax(_)
SetMax(S) == LET x == CHOOSE x \in S : TRUE
             IN IF S = {x} THEN x ELSE Max2(x, SetMax(S \ {x}))

(* ------------------------------------------------------------------ *)
(* Glyphs and glyph strings                                            *)
(* ------------------------------------------------------------------ *)
\* memset (g, 0, sizeof (MFLTGlyph)); g->code = g->c = c; g->from = g->to = i;
NormGlyph(c, i) ==
  [c |-> c, code |-> c, from |-> i, to |-> i, encoded |-> 0, measured |-> 0,
   xadv |-> 0, yadv |-> 0, xoff |-> 0, yoff |-> 0,
   lbearing |-> 0, rbearing |-> 0, ascent |-> 0, descent |-> 0,
   cmb |-> 0, lpad |-> 0, rpad |-> 0]

\* What a read outside a glyph array yields: every field holds the value v,
\* which the reader does not control.
WildGlyph(v) ==
  [c |-> v, code |-> v, from |-> v, to |-> v, encoded |-> 0, measured |-> 0,
   xadv |-> 0, yadv |-> 0, xoff |-> 0, yoff |-> 0,
   lbearing |-> 0, rbearing |-> 0, ascent |-> 0, descent |-> 0,
   cmb |-> 0, lpad |-> 0, rpad |-> 0]

\* GREF (gstring, idx) used as a read; idx outside 0 .. used-1 reads memory
\* that holds no glyph of the string.
InString(gs, idx) == idx >= 0 /\ idx < Len(gs.glyphs)
GREF(gs, idx, wild) == IF InString(gs, idx) THEN gs.glyphs[idx + 1] ELSE WildGlyph(wild)

(* ------------------------------------------------------------------ *)
(* The font adapter (external interface: get_glyph_id, get_metrics,    *)
(* drive_otf, check_otf)                                               *)
(* ------------------------------------------------------------------ *)
GID_BASE == 1000
MarkGlyphs == {GID_BASE + 2}

\* get_glyph_id: a glyph whose code is still a character code gets the
\* font's glyph id and becomes encoded; an encoded glyph is left alone.
GlyphIdOf(code) == code + GID_BASE
EncodeGlyph(g) == IF g.encoded = 1 THEN g
                  ELSE [g EXCEPT !.code = GlyphIdOf(g.code), !.encoded = 1]
get_glyph_id(glyphs, from, to) ==
  Tup([k \in 1..Len(glyphs) |->
     IF k - 1 >= from /\ k - 1 < to THEN EncodeGlyph(glyphs[k]) ELSE glyphs[k]])

\* get_metrics: an unmeasured glyph gets the font's metrics for its id.
MeasureGlyph(g) ==
  IF g.measured = 1 THEN g
  ELSE [g EXCEPT !.measured = 1,
                 !.xadv = IF g.code \in MarkGlyphs THEN 0 ELSE 10,
                 !.lbearing = IF g.code \in MarkGlyphs THEN -2 ELSE 1,
                 !.rbearing = IF g.code \in MarkGlyphs THEN 3 ELSE 12,
                 !.ascent = 8, !.descent = 2]
get_metrics(glyphs, from, to) ==
  Tup([k \in 1..Len(glyphs) |->
     IF k - 1 >= from /\ k - 1 < to THEN MeasureGlyph(glyphs[k]) ELSE glyphs[k]])

(* ------------------------------------------------------------------ *)
(* Category tables                                                     *)
(* ------------------------------------------------------------------ *)
\* A category table is the list of (from, to, category) entries in definition
\* order; mchartable_set / mchartable_set_range overwrite earlier entries.
RECURSIVE mchartable_lookup(_, _)
mchartable_lookup(table, code) ==
  IF table = << >> THEN 0
  ELSE LET e == table[Len(table)]
       IN IF code >= e[1] /\ code <= e[2] THEN e[3]
          ELSE mchartable_lookup(SubSeq(table, 1, Len(table) - 1), code)

(* ------------------------------------------------------------------ *)
(* Compiled commands (FontLayoutCmd)                                   *)
(* ------------------------------------------------------------------ *)
NoOtf == [sym |-> "", gsub |-> "null", gpos |-> "null"]

Cmd(type, src_type, pattern, match_idx, codes, rfrom, rto, glyph, otf, ids) ==
  [type |-> type, src_type |-> src_type, pattern |-> pattern,
   match_idx |-> match_idx, codes |-> codes, rfrom |-> rfrom, rto |-> rto,
   supported_glyph |-> glyph, otf |-> otf, cmd_ids |-> ids]

RuleRegex(pattern, ids) == Cmd("Rule", "SRC_REGEX", pattern, 0, << >>, 0, 0, 0, NoOtf, ids)
RuleIndex(idx, ids) == Cmd("Rule", "SRC_INDEX", << >>, idx, << >>, 0, 0, 0, NoOtf, ids)
RuleSeq(codes, ids) == Cmd("Rule", "SRC_SEQ", << >>, 0, codes, 0, 0, 0, NoOtf, ids)
RuleRange(a, b, ids) == Cmd("Rule", "SRC_RANGE", << >>, 0, << >>, a, b, 0, NoOtf, ids)
RuleHasGlyph(code, ids) == Cmd("Rule", "SRC_HAS_GLYPH", << >>, 0, << >>, 0, 0, code, NoOtf, ids)
RuleOtfSpec(spec, ids) == Cmd("Rule", "SRC_OTF_SPEC", << >>, 0, << >>, 0, 0, 0, spec, ids)
CondCmd(ids) == Cmd("Cond", "", << >>, 0, << >>, 0, 0, 0, NoOtf, ids)
OtfCmd(spec) == Cmd("OTF", "", << >>, 0, << >>, 0, 0, 0, spec, << >>)
\* The dummy entry load_generator appends before a command is loaded.
MaxCmd == Cmd("MAX", "", << >>, 0, << >>, 0, 0, 0, NoOtf, << >>)

\* The id of the command stored at stage->cmds[idx].
IDX(idx) == INDEX_TO_CMD_ID(idx)

(* ------------------------------------------------------------------ *)
(* Regular expressions over the category alphabet                      *)
(* ------------------------------------------------------------------ *)
\* A pattern is the list of its atoms after the leading '^': each atom is a
\* set of category letters repeated min..max times, optionally enclosed in
\* the capture group grp (grp = 0: no group), the repetition applying to the
\* group.  regexec's answer is the leftmost-longest match.
Atom(cats, min, max, grp) == [cats |-> cats, min |-> min, max |-> max, grp |-> grp]

\* The category string regexec sees at str: it ends before the first NUL.
RECURSIVE CStrLen(_, _)
CStrLen(str, k) == IF k > Len(str) \/ str[k] = 0 THEN k - 1 ELSE CStrLen(str, k + 1)

\* The repetition counts atom a can take at position p of str (of length n).
AtomCounts(a, str, n, p) ==
  {k \in a.min..Min2(a.max, n - p) : \A q \in 1..k : str[p + q] \in a.cats}

RECURSIVE RegexEnds(_, _, _, _, _)
RegexEnds(pat, i, str, n, p) ==
  IF i > Len(pat) THEN {p}
  ELSE UNION {RegexEnds(pat, i + 1, str, n, p + k) : k \in AtomCounts(pat[i], str, n, p)}

\* pmatch[] of the leftmost-longest match ending at goal, as a function from
\* group number to <<rm_so, rm_eo>>; <<-1, -1>> for a group that did not take
\* part.  Earlier atoms take as much as the overall match allows.
RECURSIVE RegexGroups(_, _, _, _, _, _, _)
RegexGroups(pat, i, str, n, p, goal, pm) ==
  IF i > Len(pat) THEN pm
  ELSE LET a == pat[i]
           ks == {k \in AtomCounts(a, str, n, p) : goal \in RegexEnds(pat, i + 1, str, n, p + k)}
           k == SetMax(ks)
           pm2 == IF a.grp = 0 \/ k = 0 THEN pm
                  ELSE [pm EXCEPT ![a.grp] = <<p + k - 1, p + k>>]
       IN RegexGroups(pat, i + 1, str, n, p + k, goal, pm2)

\* regexec (&preg, str, NMATCH, pmatch, 0) for an anchored pattern.
regexec(pat, str) ==
  LET n == CStrLen(str, 1)
      ends == RegexEnds(pat, 1, str, n, 0)
  IN IF ends = {} THEN [result |-> 1, pmatch |-> [g \in 0..(NMATCH - 1) |-> <<-1, -1>>]]
     ELSE LET goal == SetMax(ends)
              pm0 == [g \in 0..(NMATCH - 1) |-> IF g = 0 THEN <<0, goal>> ELSE <<-1, -1>>]
          IN [result |-> 0, pmatch |-> RegexGroups(pat, 1, str, n, 0, goal, pm0)]

(* ------------------------------------------------------------------ *)
(* The font                                                            *)
(* ------------------------------------------------------------------ *)
\* Codes for which the font has no glyph.
NoGlyph == {99}
\* The probe get_glyph_id answers for one code (run_rule, SRC_HAS_GLYPH).
FontHasGlyph(font, code) == code \notin NoGlyph
\* check_otf (font, spec)
check_otf(font, spec) == spec.sym \in font.otf_ok
\* drive_otf (font, spec, in, from, to, out, adjustment): the feature engine
\* appends the glyphs of in[from, to) to out, encoded, and answers to; without
\* room in out it answers -2, and a font whose engine fails answers -1.  It
\* reports no adjustment.
drive_otf(font, spec, in, from, to, out) ==
  IF font.otf_error THEN [to |-> -1, out |-> out]
  ELSE IF Len(out.glyphs) + (to - from) > out.allocated
  THEN [to |-> -2, out |-> out]
  ELSE [to |-> to, out |-> [out EXCEPT !.glyphs = @ \o Slice(in.glyphs, from, to)]]

(* ------------------------------------------------------------------ *)
(* FontLayoutContext and the glyph-info macros                         *)
(* ------------------------------------------------------------------ *)
Used(gs) == Len(gs.glyphs)

\* ctx->match_indices[k]; the array has Len(match_indices) elements.
MatchIndex(ctx, k) ==
  IF k >= 0 /\ k < Len(ctx.match_indices) THEN ctx.match_indices[k + 1] ELSE ctx.wild

\* ctx->encoded[i]; the array was allocated with Len(encoded) bytes.
EncodedAt(ctx, i) ==
  IF i >= 0 /\ i < Len(ctx.encoded) THEN ctx.encoded[i + 1] ELSE ctx.wild

Flag(ctx, cond, what) == IF cond THEN [ctx EXCEPT !.ub = @ \cup {what}] ELSE ctx

\* The last glyph of out after SET_COMBINING_CODE / SET_LEFT_PADDING from the
\* pending state of the context.
ApplyPending(ctx, g) ==
  LET g1 == IF ctx.combining_code # 0 THEN [g EXCEPT !.cmb = ctx.combining_code] ELSE g
  IN IF ctx.left_padding # 0 THEN [g1 EXCEPT !.lpad = 1] ELSE g1
PendingMask(ctx) ==
  ctx.check_mask \cup (IF ctx.combining_code # 0 THEN {"CombiningCodeMask"} ELSE {})
                 \cup (IF ctx.left_padding # 0 THEN {"LeftPaddingMask"} ELSE {})

\* UPDATE_CLUSTER_RANGE (ctx, g)
\* A cluster range that only grows downwards.
UPDATE_CLUSTER_RANGEMut(ctx, g) ==
  IF ctx.cluster_begin_idx >= 0
  THEN [ctx EXCEPT !.cluster_begin_pos = IF @ > g.from THEN g.from ELSE @]
  ELSE ctx
UPDATE_CLUSTER_RANGE(ctx, g) ==
  IF ctx.cluster_begin_idx >= 0
  THEN [ctx EXCEPT !.cluster_begin_pos = IF @ > g.from THEN g.from ELSE @,
                   !.cluster_end_pos = IF @ < g.to THEN g.to ELSE @]
  ELSE ctx

RECURSIVE UpdateClusterFrom(_, _)
UpdateClusterFrom(ctx, idx) ==
  IF idx >= Used(ctx.out) THEN ctx
  ELSE UpdateClusterFrom(UPDATE_CLUSTER_RANGE(ctx, ctx.out.glyphs[idx + 1]), idx + 1)

\* GDUP fails when the output has no free element.
\* A test that lets one glyph too many in.
GDUP_fullMut(ctx) == ctx.out.allocated < Used(ctx.out)
GDUP_full(ctx) == ctx.out.allocated <= Used(ctx.out)

\* The loop of a direct code over the glyphs of in[i, to): widen the span of g.
RECURSIVE DirectSpan(_, _, _, _)
DirectSpan(ctx, g, i, to) ==
  IF i >= to THEN g
  ELSE LET tmp == GREF(ctx.in, i, ctx.wild)
           g2 == IF g.from > tmp.from THEN [g EXCEPT !.from = tmp.from]
                 ELSE IF g.to < tmp.to THEN [g EXCEPT !.to = tmp.to]
                 ELSE g
       IN DirectSpan(ctx, g2, i + 1, to)

Emit(ctx, g) == [ctx EXCEPT !.out.glyphs = Append(@, g)]

(* ------------------------------------------------------------------ *)
(* run_otf                                                             *)
(* ------------------------------------------------------------------ *)
run_otf(otf_spec, from, to, ctx0) ==
  LET from_idx == Used(ctx0.out)
      ctx == [ctx0 EXCEPT !.in.glyphs = get_glyph_id(@, from, to)]
  IN IF ~ctx.font.drive_otf
     THEN IF Used(ctx.out) + (to - from) > ctx.out.allocated
          THEN [pos |-> -2, ctx |-> ctx]
          ELSE LET c1 == [ctx EXCEPT !.in.glyphs = get_metrics(@, from, to)]
                   c2 == [c1 EXCEPT !.out.glyphs = @ \o Slice(c1.in.glyphs, from, to)]
               IN [pos |-> to, ctx |-> UpdateClusterFrom(c2, from_idx)]
     ELSE LET r == drive_otf(ctx.font, otf_spec, ctx.in, from, to, ctx.out)
          IN IF r.to < 0 THEN [pos |-> r.to, ctx |-> ctx]
             ELSE [pos |-> r.to,
                   ctx |-> UpdateClusterFrom([ctx EXCEPT !.out = r.out], from_idx)]

(* ------------------------------------------------------------------ *)
(* run_command, run_rule, run_cond                                     *)
(* ------------------------------------------------------------------ *)
RECURSIVE run_command(_, _, _, _)
RECURSIVE run_rule(_, _, _, _)
RECURSIVE RuleBody(_, _, _, _, _, _, _, _)
RECURSIVE CondFrom(_, _, _, _, _)

\* Direct code (id >= 0).
DirectCode(id, from, to, ctx) ==
  LET i == IF from < to \/ from = 0 THEN from ELSE from - 1
  IN IF GDUP_full(ctx) THEN [pos |-> -2, ctx |-> ctx]
     ELSE LET c0 == Flag(ctx, ~InString(ctx.in, i), "in")
              g0 == [GREF(ctx.in, i, ctx.wild) EXCEPT
                       !.code = ctx.code_offset + id, !.encoded = 0, !.measured = 0]
              g1 == ApplyPending(ctx, g0)
              g2 == DirectSpan(ctx, g1, from, to)
              c1 == [c0 EXCEPT !.check_mask = PendingMask(ctx)]
              c2 == UPDATE_CLUSTER_RANGE(Emit(c1, g2), g2)
          IN [pos |-> from,
              ctx |-> [c2 EXCEPT !.code_offset = 0, !.combining_code = 0,
                                 !.left_padding = 0]]

\* A copy that duplicates the glyph before an empty run.
CopyCmdDupLast(from, to, ctx) ==
  IF GDUP_full(ctx) THEN [pos |-> -2, ctx |-> ctx]
  ELSE LET k == IF from < to THEN from ELSE from - 1
       IN [pos |-> IF from < to THEN from + 1 ELSE from,
           ctx |-> [Emit(ctx, ApplyPending(ctx, GREF(ctx.in, k, ctx.wild)))
                      EXCEPT !.code_offset = 0, !.combining_code = 0, !.left_padding = 0]]

\* A copy that takes the last glyph of the run instead of the current one.
CopyCmdMut(from, to, ctx) ==
  IF from >= to THEN [pos |-> from, ctx |-> ctx]
  ELSE IF GDUP_full(ctx) THEN [pos |-> -2, ctx |-> ctx]
  ELSE [pos |-> from + 1, ctx |-> Emit(ctx, GREF(ctx.in, to - 1, ctx.wild))]

\* CMD_ID_COPY
CopyCmd(from, to, ctx) ==
  IF from >= to THEN [pos |-> from, ctx |-> ctx]
  ELSE IF GDUP_full(ctx) THEN [pos |-> -2, ctx |-> ctx]
  ELSE LET c0 == Flag(ctx, ~InString(ctx.in, from), "in")
           g == ApplyPending(ctx, GREF(ctx.in, from, ctx.wild))
           c1 == [c0 EXCEPT !.check_mask = PendingMask(ctx)]
           c2 == UPDATE_CLUSTER_RANGE(Emit(c1, g), g)
       IN [pos |-> from + 1,
           ctx |-> [c2 EXCEPT !.code_offset = 0, !.combining_code = 0,
                              !.left_padding = 0]]

\* CMD_ID_CLUSTER_BEGIN
ClusterBegin(from, ctx) ==
  IF ctx.cluster_begin_idx < 0
  THEN LET g == GREF(ctx.in, from, ctx.wild)
           c0 == Flag(ctx, ~InString(ctx.in, from), "in")
       IN [pos |-> from,
           ctx |-> [c0 EXCEPT !.cluster_begin_idx = Used(ctx.out),
                              !.cluster_begin_pos = g.from,
                              !.cluster_end_pos = g.to]]
  ELSE [pos |-> from, ctx |-> ctx]

\* CMD_ID_CLUSTER_END
ClusterEnd(from, ctx) ==
  IF ctx.cluster_begin_idx >= 0 /\ ctx.cluster_begin_idx < Used(ctx.out)
  THEN [pos |-> from,
        ctx |-> [ctx EXCEPT
                   !.out.glyphs = Tup([k \in 1..Len(@) |->
                                     IF k - 1 >= ctx.cluster_begin_idx
                                     THEN [@[k] EXCEPT !.from = ctx.cluster_begin_pos,
                                                       !.to = ctx.cluster_end_pos]
                                     ELSE @[k]]),
                   !.cluster_begin_idx = -1]]
  ELSE [pos |-> from, ctx |-> ctx]

\* A separator that takes the pending combining code as copy does.
SeparatorTakesPending(from, to, ctx) ==
  LET i == IF from < to THEN from ELSE from - 1
  IN IF GDUP_full(ctx) THEN [pos |-> -2, ctx |-> ctx]
     ELSE LET g == [GREF(ctx.in, i, ctx.wild) EXCEPT
                      !.c = -1, !.code = 0, !.xadv = 0, !.yadv = 0,
                      !.encoded = 0, !.measured = 0]
          IN [pos |-> from,
              ctx |-> [Emit(ctx, ApplyPending(ctx, g)) EXCEPT !.combining_code = 0]]

\* CMD_ID_SEPARATOR
Separator(from, to, ctx) ==
  LET i == IF from < to THEN from ELSE from - 1
  IN IF GDUP_full(ctx) THEN [pos |-> -2, ctx |-> ctx]
     ELSE LET c0 == Flag(ctx, ~InString(ctx.in, i), "in")
              g == [GREF(ctx.in, i, ctx.wild) EXCEPT
                      !.c = -1, !.code = 0, !.xadv = 0, !.yadv = 0,
                      !.encoded = 0, !.measured = 0]
          IN [pos |-> from, ctx |-> Emit(c0, g)]

\* CMD_ID_RIGHT_PADDING
RightPadding(from, ctx) ==
  IF Used(ctx.out) > 0
  THEN [pos |-> from,
        ctx |-> [ctx EXCEPT !.out.glyphs[Used(ctx.out)].rpad = 1,
                            !.check_mask = @ \cup {"RightPaddingMask"}]]
  ELSE [pos |-> from, ctx |-> ctx]

run_cond(cond, from, to, ctx) == CondFrom(cond, 1, from, to, ctx)

\* A loop that goes on after a match.
CondBreaksMut(pos) == pos < 0

\* The loop of run_cond leaves at the first command whose result is not 0.
CondBreaks(pos) == pos # 0

CondFrom(cond, i, from, to, ctx) ==
  IF i > Len(cond.cmd_ids) THEN [pos |-> 0, ctx |-> ctx]
  ELSE LET r == run_command(cond.cmd_ids[i], from, to, ctx)
       IN IF CondBreaks(r.pos) THEN r ELSE CondFrom(cond, i + 1, from, to, r.ctx)

run_command(id, from, to, ctx0) ==
  LET ctx == [ctx0 EXCEPT !.trace = Append(@, id)]
  IN IF id >= 0 THEN DirectCode(id, from, to, ctx)
     ELSE IF id <= CMD_ID_OFFSET_INDEX
     THEN LET idx == CMD_ID_TO_INDEX(id)
          IN IF idx >= Len(ctx.stage.cmds) THEN [pos |-> -1, ctx |-> ctx]
             ELSE LET cmd == ctx.stage.cmds[idx + 1]
                  IN CASE cmd.type = "Rule" -> run_rule(cmd, from, to, ctx)
                       [] cmd.type = "Cond" -> run_cond(cmd, from, to, ctx)
                       [] cmd.type = "OTF" -> run_otf(cmd.otf, from, to, ctx)
                       [] OTHER -> [pos |-> to, ctx |-> ctx]
     ELSE IF id <= CMD_ID_OFFSET_COMBINING
     THEN [pos |-> from,
           ctx |-> [ctx EXCEPT !.combining_code = CMD_ID_TO_COMBINING_CODE(id)]]
     ELSE CASE id = CMD_ID_COPY -> CopyCmd(from, to, ctx)
            [] id = CMD_ID_CLUSTER_BEGIN -> ClusterBegin(from, ctx)
            [] id = CMD_ID_CLUSTER_END -> ClusterEnd(from, ctx)
            [] id = CMD_ID_SEPARATOR -> Separator(from, to, ctx)
            [] id = CMD_ID_LEFT_PADDING -> [pos |-> from, ctx |-> [ctx EXCEPT !.left_padding = 1]]
            [] id = CMD_ID_RIGHT_PADDING -> RightPadding(from, ctx)
            [] OTHER -> [pos |-> -1, ctx |-> ctx]

\* The sub-command loop of run_rule from index i (0-based), and its return.
\* A loop that moves one glyph too far after a sub-command has consumed.
NextFromSkips(consumed, pos, from) == IF consumed THEN pos + 1 ELSE from

\* Lines 1558-1560: a sub-command that has consumed moves from to its result.
NextFrom(consumed, pos, from) == IF consumed THEN pos ELSE from

\* A return that leaves the captures of the rule in the context.
RuleReturnKeeps(rule, to, ctx, saved, orig_from) ==
  [pos |-> IF rule.src_type = "SRC_INDEX" THEN orig_from ELSE to, ctx |-> ctx]

\* Lines 1562-1565: the return of run_rule after the loop.
RuleReturn(rule, to, ctx, saved, orig_from) ==
  [pos |-> IF rule.src_type = "SRC_INDEX" THEN orig_from ELSE to,
   ctx |-> [ctx EXCEPT !.match_indices = saved]]

\* ctx.steps holds, for every sub-command a rule has run, the rule's command
\* list, the index of the sub-command, from and to at the call and the result
\* (observation only).
RuleBody(rule, i, consumed, from, to, ctx, saved, orig_from) ==
  IF i >= Len(rule.cmd_ids)
  THEN RuleReturn(rule, to, ctx, saved, orig_from)
  ELSE IF rule.cmd_ids[i + 1] = CMD_ID_REPEAT /\ ~consumed
  THEN RuleBody(rule, i + 1, consumed, from, to, ctx, saved, orig_from)
  ELSE LET repeat == rule.cmd_ids[i + 1] = CMD_ID_REPEAT
           j == IF repeat THEN i - 1 ELSE i
           r == run_command(rule.cmd_ids[j + 1], from, to, ctx)
           c == [r.ctx EXCEPT !.steps = Append(@, [ids |-> rule.cmd_ids, i |-> j,
                                                    from |-> from, to |-> to,
                                                    pos |-> r.pos])]
       IN IF r.pos < 0 THEN [pos |-> r.pos, ctx |-> c]
          ELSE RuleBody(rule, j + 1, r.pos > from, NextFrom(r.pos > from, r.pos, from),
                        to, c, saved, orig_from)

\* Line 1451: the byte at to is replaced by a NUL for the time of regexec.
TerminateAt(encoded, to) ==
  IF to < Len(encoded) THEN [encoded EXCEPT ![to + 1] = 0] ELSE encoded

\* A regex rule that leaves the NUL in the category string.
RestoreCodeLost(encoded, to, saved_code) == encoded

\* Lines 1455 and 1476: the saved byte is put back.
RestoreCode(encoded, to, saved_code) ==
  IF to < Len(encoded) THEN [encoded EXCEPT ![to + 1] = saved_code] ELSE encoded

\* A comparison of the first code only.
SeqMatchesMut(rule, from, to, ctx) ==
  /\ Len(rule.codes) <= to - from
  /\ rule.codes[1] = GREF(ctx.in, from, ctx.wild).code

\* SRC_SEQ: the run is long enough and its codes are those of the rule.
SeqMatches(rule, from, to, ctx) ==
  /\ Len(rule.codes) <= to - from
  /\ \A i \in 0..(Len(rule.codes) - 1) :
       rule.codes[i + 1] = GREF(ctx.in, from + i, ctx.wild).code

\* No offset at all.
RangeOffsetMut(rule, head) == 0

\* SRC_RANGE: the offset a matching head leaves in the context.
RangeOffset(rule, head) == head - rule.rfrom

run_rule(rule, from, to, ctx) ==
  LET saved == ctx.match_indices
      nomatch == [pos |-> 0, ctx |-> ctx]
  IN CASE rule.src_type = "SRC_SEQ" ->
            IF ~SeqMatches(rule, from, to, ctx) THEN nomatch
            ELSE RuleBody(rule, 0, FALSE, from, from + Len(rule.codes), ctx, saved, from)
       [] rule.src_type = "SRC_RANGE" ->
            IF from >= to THEN nomatch
            ELSE LET head == GREF(ctx.in, from, ctx.wild).code
                 IN IF head < rule.rfrom \/ head > rule.rto THEN nomatch
                    ELSE RuleBody(rule, 0, FALSE, from, from + 1,
                                  [ctx EXCEPT !.code_offset = RangeOffset(rule, head)],
                                  saved, from)
       [] rule.src_type = "SRC_REGEX" ->
            IF from > to THEN nomatch
            ELSE LET c0 == Flag(ctx, to >= Len(ctx.encoded), "encoded")
                     saved_code == EncodedAt(ctx, to)
                     c1 == [c0 EXCEPT !.encoded = TerminateAt(@, to)]
                     \* the C string at encoded + from, up to the NUL at to
                     str == Tup([k \in 1..(to - from + 1) |->
                               IF from + k - 1 = to THEN 0
                               ELSE EncodedAt(c1, from + k - 1)])
                     m == regexec(rule.pattern, str)
                     c2 == [c1 EXCEPT !.encoded = RestoreCode(@, to, saved_code)]
                 IN IF m.result = 0 /\ m.pmatch[0][1] = 0
                    THEN LET mi == Tup([k \in 1..(NMATCH * 2) |->
                                      LET pm == m.pmatch[(k - 1) \div 2]
                                      IN IF pm[1] < 0 THEN -1
                                         ELSE from + pm[2 - (k % 2)]])
                         IN RuleBody(rule, 0, FALSE, from, mi[2],
                                     [c2 EXCEPT !.match_indices = mi], saved, from)
                    ELSE [pos |-> 0, ctx |-> c2]
       [] rule.src_type = "SRC_INDEX" ->
            IF rule.match_idx >= NMATCH THEN nomatch
            ELSE LET c0 == Flag(ctx, rule.match_idx * 2 + 1 >= Len(ctx.match_indices),
                                "match_indices")
                     f == MatchIndex(ctx, rule.match_idx * 2)
                 IN IF f < 0 THEN [pos |-> 0, ctx |-> c0]
                    ELSE RuleBody(rule, 0, FALSE, f,
                                  MatchIndex(ctx, rule.match_idx * 2 + 1),
                                  c0, saved, from)
       [] rule.src_type = "SRC_HAS_GLYPH" ->
            IF rule.supported_glyph < 0
            THEN IF from >= to THEN nomatch
                 ELSE LET g == GREF(ctx.in, from, ctx.wild)
                      IN IF g.encoded = 0 /\ ~FontHasGlyph(ctx.font, g.code)
                         THEN nomatch
                         ELSE RuleBody(rule, 0, FALSE, from, from + 1, ctx, saved, from)
            ELSE IF ~FontHasGlyph(ctx.font, rule.supported_glyph) THEN nomatch
                 ELSE RuleBody(rule, 0, FALSE, from, from, ctx, saved, from)
       [] rule.src_type = "SRC_OTF_SPEC" ->
            IF ~ctx.font.has_check_otf
            THEN IF rule.otf.gsub = "list" \/ rule.otf.gpos = "list" THEN nomatch
                 ELSE RuleBody(rule, 0, FALSE, from, to, ctx, saved, from)
            ELSE IF ~check_otf(ctx.font, rule.otf) THEN nomatch
                 ELSE RuleBody(rule, 0, FALSE, from, to, ctx, saved, from)

(* ------------------------------------------------------------------ *)
(* Combining codes (MAKE_COMBINING_CODE and its accessors)             *)
(* ------------------------------------------------------------------ *)
MAKE_COMBINING_CODE(base_y, base_x, add_y, add_x, off_y, off_x) ==
  off_y * 65536 + off_x * 256 + base_x * 64 + base_y * 16 + add_x * 4 + add_y
COMBINING_CODE_OFF_Y(code) == ((code \div 65536) % 256) - 128
COMBINING_CODE_OFF_X(code) == ((code \div 256) % 256) - 128
COMBINING_CODE_BASE_X(code) == (code \div 64) % 4
COMBINING_CODE_BASE_Y(code) == (code \div 16) % 4
COMBINING_CODE_ADD_X(code) == (code \div 4) % 4
COMBINING_CODE_ADD_Y(code) == code % 4

(* ------------------------------------------------------------------ *)
(* run_stages: the post-processing of the last stage's output          *)
(* ------------------------------------------------------------------ *)
\* A loop that stops after the first separator it has removed.
StripFirstSeparator(glyphs) ==
  LET seps == {k \in 1..Len(glyphs) : glyphs[k].c < 0}
  IN IF seps = {} THEN glyphs
     ELSE LET k == CHOOSE x \in seps : \A y \in seps : x <= y
          IN SubSeq(glyphs, 1, k - 1) \o SubSeq(glyphs, k + 1, Len(glyphs))

\* "Remove separator glyphs."
StripSeparators(glyphs) == SelectSeq(glyphs, LAMBDA g : g.c >= 0)

\* g_indices is allocated with len elements.  The element at index len is the
\* memory that follows the array; it holds the value slot when the pass
\* starts.  The array is modelled as a function on 0 .. len whose last element
\* is that memory; an access at any other index outside 0 .. len-1 touches
\* memory the model does not hold (a read yields slot, a write is lost).
GIndexRead(gi, len, slot, k) == IF k >= 0 /\ k <= len THEN gi[k] ELSE slot
GIndexOutside(len, k) == k < 0 \/ k >= len

\* for (pos = g->from; pos <= g->to; pos++) if (g_indices[pos - orig_from] < 0) ...
RECURSIVE MarkSpan(_, _, _, _, _, _, _)
MarkSpan(st, len, slot, orig_from, i, pos, last) ==
  IF pos > last THEN st
  ELSE LET k == pos - orig_from
           st1 == [gi |-> IF k >= 0 /\ k <= len /\ st.gi[k] < 0
                          THEN [st.gi EXCEPT ![k] = i] ELSE st.gi,
                   oob |-> st.oob \/ GIndexOutside(len, k)]
       IN MarkSpan(st1, len, slot, orig_from, i, pos + 1, last)

RECURSIVE MarkGlyphsFrom(_, _, _, _, _, _)
MarkGlyphsFrom(st, glyphs, len, slot, orig_from, i) ==
  IF i >= Len(glyphs) THEN st
  ELSE LET g == glyphs[i + 1]
       IN MarkGlyphsFrom(MarkSpan(st, len, slot, orig_from, i, g.from, g.to),
                         glyphs, len, slot, orig_from, i + 1)

\* do { g->from = v; } while (++j < used && (g = GREF (out, j)) && g->from == this_from);
RECURSIVE SetFromRun(_, _, _, _)
SetFromRun(glyphs, j, this_from, v) ==
  LET g2 == [glyphs EXCEPT ![j + 1].from = v]
  IN IF j + 1 < Len(glyphs) /\ glyphs[j + 2].from = this_from
     THEN SetFromRun(g2, j + 1, this_from, v)
     ELSE g2

\* do { g->to = v; } while (--j >= 0 && (g = GREF (out, j)) && g->to == this_to);
RECURSIVE SetToRun(_, _, _, _)
SetToRun(glyphs, j, this_to, v) ==
  LET g2 == [glyphs EXCEPT ![j + 1].to = v]
  IN IF j - 1 >= 0 /\ glyphs[j].to = this_to
     THEN SetToRun(g2, j - 1, this_to, v)
     ELSE g2

\* The first index k >= i with k >= len or g_indices[k] >= 0.
RECURSIVE SkipUncovered(_, _, _)
SkipUncovered(gi, len, i) ==
  IF i < len /\ gi[i] < 0 THEN SkipUncovered(gi, len, i + 1) ELSE i

\* for (i = 0; i < len; i++) if (g_indices[i] < 0) ...
\* st = [glyphs, oob (an index outside g_indices was used),
\*       wildg (a glyph outside out was written)]
RECURSIVE RepairLoop(_, _, _, _, _, _)
RepairLoop(st, gi, len, slot, orig_from, i) ==
  IF i >= len THEN st
  ELSE IF gi[i] >= 0 THEN RepairLoop(st, gi, len, slot, orig_from, i + 1)
  ELSE IF i = 0
  THEN LET i2 == SkipUncovered(gi, len, 1)
           j == GIndexRead(gi, len, slot, i2)
           inout == j >= 0 /\ j < Len(st.glyphs)
           st1 == [glyphs |-> IF inout
                              THEN SetFromRun(st.glyphs, j, st.glyphs[j + 1].from,
                                              orig_from + i2)
                              ELSE st.glyphs,
                   oob |-> st.oob \/ GIndexOutside(len, i2),
                   wildg |-> st.wildg \/ ~inout]
       IN RepairLoop(st1, gi, len, slot, orig_from, i2 + 1)
  ELSE LET j == gi[i - 1]
           inout == j >= 0 /\ j < Len(st.glyphs)
           st1 == [glyphs |-> IF inout
                              THEN SetToRun(st.glyphs, j, st.glyphs[j + 1].to,
                                            orig_from + i + 1)
                              ELSE st.glyphs,
                   oob |-> st.oob,
                   wildg |-> st.wildg \/ ~inout]
       IN RepairLoop(st1, gi, len, slot, orig_from, i + 1)

\* "Check if all characters in the range are covered by some glyph(s).  If
\* not, change <from> and <to> of glyphs to cover uncovered characters."
CoverageRepair(glyphs, len, slot, orig_from) ==
  LET gi0 == [k \in 0..len |-> IF k < len THEN -1 ELSE slot]
      m == MarkGlyphsFrom([gi |-> gi0, oob |-> FALSE], glyphs, len, slot, orig_from, 0)
  IN RepairLoop([glyphs |-> glyphs, oob |-> m.oob, wildg |-> FALSE],
                m.gi, len, slot, orig_from, 0)

\* g->xoff of a combining glyph g placed on base.
CombineXoffMut(base, g, code, x_ppem) ==
  g.xoff + CDiv(base.xadv * COMBINING_CODE_BASE_X(code)
                - g.xadv * COMBINING_CODE_ADD_X(code), 2)
  + CDiv(x_ppem * COMBINING_CODE_OFF_X(code), 100) - base.xadv
CombineXoff(base, g, code, x_ppem) ==
  CDiv(base.xadv * COMBINING_CODE_BASE_X(code)
       - g.xadv * COMBINING_CODE_ADD_X(code), 2)
  + CDiv(x_ppem * COMBINING_CODE_OFF_X(code), 100) - base.xadv

\* "Handle combining."  st = [glyphs, rp (SET_RIGHT_PADDING was used)]
RECURSIVE CombineLoop(_, _, _, _, _, _)
CombineLoop(st, i, b, base_height, x_ppem, y_ppem) ==
  IF i >= Len(st.glyphs) THEN st
  ELSE LET g == st.glyphs[i + 1]
           base == st.glyphs[b + 1]
           code == g.cmb
       IN IF code # 0
          THEN LET height == g.ascent + g.descent
                   bfrom == IF base.from > g.from THEN g.from ELSE base.from
                   bto == IF base.from > g.from THEN base.to
                          ELSE IF base.to < g.to THEN g.to ELSE base.to
                   base_y == COMBINING_CODE_BASE_Y(code)
                   add_y == COMBINING_CODE_ADD_Y(code)
                   off_y == COMBINING_CODE_OFF_Y(code)
                   xoff == CombineXoff(base, g, code, x_ppem)
                   y1 == IF base_y < 3 THEN CDiv(base_height * base_y, 2) - base.ascent
                         ELSE 0
                   y2 == IF add_y < 3 THEN y1 - (CDiv(height * add_y, 2) - g.ascent)
                         ELSE y1
                   yoff == y2 - CDiv(y_ppem * off_y, 100)
                   nb == [base EXCEPT
                            !.from = bfrom, !.to = bto,
                            !.lbearing = Min2(@, base.xadv + g.lbearing + xoff),
                            !.rbearing = Max2(@, base.xadv + g.xadv + xoff),
                            !.ascent = Max2(@, g.ascent - yoff),
                            !.descent = Max2(@, g.descent - yoff),
                            !.rpad = IF g.rpad # 0 THEN 1 ELSE @]
                   ng == [g EXCEPT !.xoff = xoff, !.yoff = yoff, !.xadv = 0, !.yadv = 0]
                   gl == [st.glyphs EXCEPT ![b + 1] = nb, ![i + 1] = ng]
               IN CombineLoop([glyphs |-> gl, rp |-> st.rp \/ g.rpad # 0],
                              i + 1, b, base_height, x_ppem, y_ppem)
          ELSE CombineLoop(st, i + 1, i, g.ascent + g.descent, x_ppem, y_ppem)

\* Lines 2036-2042: the pass starts with the first glyph as the base.
HandleCombining(glyphs, fnt) ==
  CombineLoop([glyphs |-> glyphs, rp |-> FALSE], 1, 0,
              glyphs[1].ascent + glyphs[1].descent, fnt.x_ppem * 64, fnt.y_ppem * 64)

\* "Handle padding"
\* A left padding that leaves the right bearing where it was.
PadGlyphKeepsBearing(g) ==
  IF g.cmb # 0 THEN g
  ELSE LET g1 == IF g.rpad # 0 /\ g.rbearing > g.xadv THEN [g EXCEPT !.xadv = g.rbearing]
                 ELSE g
       IN IF g1.lpad # 0 /\ g1.lbearing < 0
          THEN [g1 EXCEPT !.xoff = @ - g1.lbearing, !.xadv = @ - g1.lbearing,
                          !.lbearing = 0]
          ELSE g1

\* Lines 2095-2108: the padding of one glyph.
PadGlyph(g) ==
  IF g.cmb # 0 THEN g
  ELSE LET g1 == IF g.rpad # 0 /\ g.rbearing > g.xadv THEN [g EXCEPT !.xadv = g.rbearing]
                 ELSE g
       IN IF g1.lpad # 0 /\ g1.lbearing < 0
          THEN [g1 EXCEPT !.xoff = @ - g1.lbearing, !.xadv = @ - g1.lbearing,
                          !.rbearing = @ - g1.lbearing, !.lbearing = 0]
          ELSE g1

\* Lines 1967-2111 of run_stages; slot is the content of the memory that
\* follows g_indices.
\* Lines 1967-2089: the output of the last stage as the padding finds it.
BeforePadding(ctx, orig_from, len, slot) ==
  LET g1 == get_glyph_id(StripSeparators(ctx.out.glyphs), 0, Used(ctx.out))
      rep == CoverageRepair(g1, len, slot, orig_from)
      g2 == get_metrics(rep.glyphs, 0, Len(rep.glyphs))
      cmb == IF "CombiningCodeMask" \in ctx.check_mask /\ Len(g2) > 0
             THEN HandleCombining(g2, ctx.font)
             ELSE [glyphs |-> g2, rp |-> FALSE]
  IN [glyphs |-> cmb.glyphs,
      mask |-> ctx.check_mask \cup (IF cmb.rp THEN {"RightPaddingMask"} ELSE {}),
      oob |-> rep.oob, wildg |-> rep.wildg]

PostProcess(ctx, orig_from, len, slot) ==
  IF Used(ctx.out) = 0 THEN ctx
  ELSE LET b == BeforePadding(ctx, orig_from, len, slot)
           g3 == IF b.mask \cap {"LeftPaddingMask", "RightPaddingMask"} # {}
                 THEN Tup([k \in 1..Len(b.glyphs) |-> PadGlyph(b.glyphs[k])])
                 ELSE b.glyphs
       IN [ctx EXCEPT !.out.glyphs = g3, !.check_mask = b.mask,
                      !.ub = @ \cup (IF b.oob THEN {"g_indices"} ELSE {})
                               \cup (IF b.wildg THEN {"out"} ELSE {})]

(* ------------------------------------------------------------------ *)
(* GREPLACE                                                            *)
(* ------------------------------------------------------------------ *)
\* The caller's glyph string is the array glyphs of allocated elements, of
\* which the first used hold glyphs.  GREPLACE (src, src_from, src_to, tgt,
\* tgt_from, tgt_to): src is a sequence of glyphs, tgt a glyph string.  A
\* write outside the array is lost and reported in oob.
GREPLACE(src, src_from, src_to, tgt, tgt_from, tgt_to, wild) ==
  LET src_len == src_to - src_from
      tgt_len == tgt_to - tgt_from
      inc == src_len - tgt_len
      moved == inc # 0 /\ tgt_to < tgt.used
      nmove == IF moved THEN tgt.used - tgt_to ELSE 0
      mem == [p \in 0..(tgt.allocated - 1) |->
                IF p >= tgt_from /\ p < tgt_from + src_len
                THEN src[src_from + (p - tgt_from) + 1]
                ELSE IF p >= tgt_from + src_len /\ p < tgt_from + src_len + nmove
                THEN GREF(tgt, tgt_to + (p - tgt_from - src_len), wild)
                ELSE tgt.glyphs[p + 1]]
      last == tgt_from + src_len + nmove
  IN IF tgt.allocated < tgt.used + inc
     THEN [result |-> -2, tgt |-> tgt, oob |-> FALSE]
     ELSE [result |-> 0,
           tgt |-> [tgt EXCEPT !.glyphs = Tup([k \in 1..tgt.allocated |-> mem[k - 1]]),
                               !.used = @ + inc],
           oob |-> (src_len + nmove > 0) /\ (tgt_from < 0 \/ last > tgt.allocated)]

(* ------------------------------------------------------------------ *)
(* Layout tables                                                       *)
(* ------------------------------------------------------------------ *)
\* Characters of the model: 65 and 66 are covered by every table, 67 by none.
Chars == {65, 66, 67}
CatE == 69
CatN == 78
CatAB == << <<65, 66, CatE>> >>
CatABN == << <<65, 66, CatE>>, <<66, 66, CatN>> >>
\* Category table of a second stage that reads the codes 65, 66 and 300..340.
CatStage2 == << <<65, 66, CatE>>, <<300, 340, CatN>> >>

OtfAll == [sym |-> ":otf=deva", gsub |-> "all", gpos |-> "all"]
\* 'tc.bc'
CmbTcBc == COMBINING_CODE_TO_CMD_ID(MAKE_COMBINING_CODE(0, 1, 2, 1, 128, 128))

Stage(category, cmds) == [category |-> category, cmds |-> cmds]
Flt(name, coverage, stages) == [name |-> name, coverage |-> coverage, stages |-> stages]

\* (generator (0 = *))
FltCopy == Flt("copy", CatAB,
  << Stage(CatAB, << RuleIndex(0, <<CMD_ID_COPY, CMD_ID_REPEAT>>) >>) >>)

\* (generator (0 alt *)) (alt (cond ((65 66) 256) ((65) 257)))
FltCond == Flt("cond", CatAB,
  << Stage(CatAB, << RuleIndex(0, <<IDX(1), CMD_ID_REPEAT>>),
                     CondCmd(<<IDX(2), IDX(3)>>),
                     RuleSeq(<<65, 66>>, <<256>>),
                     RuleSeq(<<65>>, <<257>>) >>) >>)

\* (generator (0 map *)) (map ((range 65 66) 500))
FltRange == Flt("range", CatAB,
  << Stage(CatAB, << RuleIndex(0, <<IDX(1), CMD_ID_REPEAT>>),
                     RuleRange(65, 66, <<500>>) >>) >>)

\* (65 65) produces 9 glyphs, 65 one glyph, 66 produces 49 glyphs.
DirectCodes(n) == Tup([k \in 1..n |-> 300 + k])
FltGrow == Flt("grow", CatAB,
  << Stage(CatAB, << RuleIndex(0, <<IDX(1), CMD_ID_REPEAT>>),
                     CondCmd(<<IDX(2), IDX(3), IDX(4)>>),
                     RuleSeq(<<65, 65>>, DirectCodes(9)),
                     RuleSeq(<<65>>, DirectCodes(1)),
                     RuleSeq(<<66>>, DirectCodes(49)) >>) >>)

\* (65 66) keeps only its first glyph; (66 65) drops its first glyph and
\* copies the second; any other glyph is copied.
FltDrop == Flt("drop", CatAB,
  << Stage(CatAB, << RuleIndex(0, <<IDX(1), CMD_ID_REPEAT>>),
                     CondCmd(<<IDX(2), IDX(3), CMD_ID_COPY>>),
                     RuleSeq(<<65, 66>>, <<CMD_ID_COPY>>),
                     RuleSeq(<<66, 65>>, <<IDX(4), CMD_ID_COPY>>),
                     RuleRange(66, 66, << >>) >>) >>)

\* (generator (0 syl *)) (syl ("E(N)?" < | = tc.bc [ = ] >))
FltCluster == Flt("cluster", CatABN,
  << Stage(CatABN, << RuleIndex(0, <<IDX(1), CMD_ID_REPEAT>>),
                      RuleRegex(<<Atom({CatE}, 1, 1, 0), Atom({CatN}, 0, 1, 1)>>,
                                <<CMD_ID_CLUSTER_BEGIN, CMD_ID_SEPARATOR, CMD_ID_COPY,
                                  CmbTcBc, CMD_ID_LEFT_PADDING, CMD_ID_COPY,
                                  CMD_ID_RIGHT_PADDING, CMD_ID_CLUSTER_END>>) >>) >>)

\* (generator (0 alt *)) (alt (cond ((65) =) ((66) otf:deva)))
FltOtf == Flt("otf", CatAB,
  << Stage(CatAB, << RuleIndex(0, <<IDX(1), CMD_ID_REPEAT>>),
                     CondCmd(<<IDX(2), IDX(3)>>),
                     RuleSeq(<<65>>, <<CMD_ID_COPY>>),
                     RuleSeq(<<66>>, <<IDX(4)>>),
                     OtfCmd(OtfAll) >>) >>)

\* Two stages: the first doubles 65 and copies 66, the second maps the codes
\* 65..66 to 500.. and copies the rest.
FltTwo == Flt("two", CatAB,
  << Stage(CatAB, << RuleIndex(0, <<IDX(1), CMD_ID_REPEAT>>),
                     CondCmd(<<IDX(2), CMD_ID_COPY>>),
                     RuleSeq(<<65>>, <<CMD_ID_COPY, 300>>) >>),
     Stage(CatStage2, << RuleIndex(0, <<IDX(1), CMD_ID_REPEAT>>),
                         CondCmd(<<IDX(2), CMD_ID_COPY>>),
                         RuleRange(65, 66, <<500>>) >>) >>)

\* Two stages: the first puts a separator before every glyph, the second
\* copies what it reads, separators included.
FltSep == Flt("sep", CatAB,
  << Stage(CatAB, << RuleIndex(0, <<IDX(1), CMD_ID_REPEAT>>),
                     RuleRange(65, 66, <<CMD_ID_SEPARATOR, CMD_ID_COPY>>) >>),
     Stage(CatStage2, << RuleIndex(0, <<CMD_ID_COPY, CMD_ID_REPEAT>>) >>) >>)

\* Two stages that both grow: the first turns 66 into the five glyphs
\* 301..305, the second turns 301 into five glyphs again; both copy the rest.
FltFail == Flt("fail", CatAB,
  << Stage(CatAB, << RuleIndex(0, <<IDX(1), CMD_ID_REPEAT>>),
                     CondCmd(<<IDX(2), CMD_ID_COPY>>),
                     RuleSeq(<<66>>, DirectCodes(5)) >>),
     Stage(CatStage2, << RuleIndex(0, <<IDX(1), CMD_ID_REPEAT>>),
                         CondCmd(<<IDX(2), CMD_ID_COPY>>),
                         RuleSeq(<<301>>, DirectCodes(5)) >>) >>)

\* (generator (0 pad *)) (pad (cond ((65 65) = ]) ((65) [ 2 ]) ((66) [ =)))
\* The glyph of the code 2 has a negative left bearing.
FltPad == Flt("pad", CatAB,
  << Stage(CatAB, << RuleIndex(0, <<IDX(1), CMD_ID_REPEAT>>),
                     CondCmd(<<IDX(2), IDX(3), IDX(4)>>),
                     RuleSeq(<<65, 65>>, <<CMD_ID_COPY, CMD_ID_RIGHT_PADDING>>),
                     RuleSeq(<<65>>, <<CMD_ID_LEFT_PADDING, 2, CMD_ID_RIGHT_PADDING>>),
                     RuleSeq(<<66>>, <<CMD_ID_LEFT_PADDING, CMD_ID_COPY>>) >>) >>)

\* (generator (0 alt *)) (alt (cond ((66) otf:deva) ((65) 301 ... 308))): 66
\* goes through the font's feature engine, 65 produces 8 glyphs.
FltRetry == Flt("retry", CatAB,
  << Stage(CatAB, << RuleIndex(0, <<IDX(1), CMD_ID_REPEAT>>),
                     CondCmd(<<IDX(2), IDX(3)>>),
                     RuleSeq(<<66>>, <<IDX(4)>>),
                     RuleSeq(<<65>>, DirectCodes(8)),
                     OtfCmd(OtfAll) >>) >>)

Tables == <<FltCopy, FltCond, FltRange, FltGrow, FltDrop, FltCluster, FltOtf, FltTwo,
            FltSep, FltFail, FltPad, FltRetry>>

FontPlain == [drive_otf |-> FALSE, has_check_otf |-> FALSE, otf_ok |-> {},
              otf_error |-> FALSE, x_ppem |-> 10, y_ppem |-> 10, family |-> "f1"]
FontOtf == [drive_otf |-> TRUE, has_check_otf |-> TRUE, otf_ok |-> {":otf=deva"},
            otf_error |-> FALSE, x_ppem |-> 10, y_ppem |-> 10, family |-> "f1"]
\* A font whose feature engine reports an error.
FontBroken == [FontOtf EXCEPT !.otf_error = TRUE]

(* ------------------------------------------------------------------ *)
(* The rule compiler: load_command and load_generator                  *)
(* ------------------------------------------------------------------ *)
\* An element of a definition (an MPlist element): an integer, a symbol, a
\* text or a list of elements.
INT(n) == [k |-> "integer", n |-> n, s |-> "", elts |-> << >>]
SYM(s) == [k |-> "symbol", n |-> 0, s |-> s, elts |-> << >>]
TXT(s) == [k |-> "mtext", n |-> 0, s |-> s, elts |-> << >>]
LST(elts) == [k |-> "plist", n |-> 0, s |-> "", elts |-> elts]

\* isalnum in the C locale.
isalnum(c) == c \in (48..57) \cup (65..90) \cup (97..122)

\* The table of a load that failed (a null pointer).
NoTable == [null |-> TRUE, table |-> << >>]

\* A CATEGORY-SPEC whose second integer is always the end of the range.
CategorySpecNoDefault(elt) ==
  LET e == elt.elts
  IN [ok |-> isalnum(e[Len(e)].n), entry |-> <<e[1].n, e[2].n, e[Len(e)].n>>]

\* load_category_table: one CATEGORY-SPEC.  The element after the second
\* integer decides: at the tail the second integer is the category and the
\* range is the single code `from'.
CategorySpec(elt) ==
  LET e == elt.elts
  IN IF elt.k # "plist" \/ Len(e) < 2 \/ e[1].k # "integer" \/ e[2].k # "integer"
       THEN [ok |-> FALSE, entry |-> << >>]
     ELSE IF Len(e) = 2
       THEN [ok |-> isalnum(e[2].n), entry |-> <<e[1].n, e[1].n, e[2].n>>]
     ELSE IF e[3].k # "integer" THEN [ok |-> FALSE, entry |-> << >>]
     ELSE [ok |-> isalnum(e[3].n), entry |-> <<e[1].n, e[2].n, e[3].n>>]

\* load_category_table (plist): the entries are set in definition order; the
\* first malformed entry makes the whole load fail.
RECURSIVE load_category_table(_)
load_category_table(plist) ==
  IF plist = << >> THEN [null |-> FALSE, table |-> << >>]
  ELSE LET rest == load_category_table(SubSeq(plist, 1, Len(plist) - 1))
           spec == CategorySpec(plist[Len(plist)])
       IN IF rest.null \/ ~spec.ok THEN NoTable
          ELSE [null |-> FALSE, table |-> Append(rest.table, spec.entry)]

(* ------------------------------------------------------------------ *)
(* Combining symbols (read_decimal_number, read_combining_position,    *)
(* get_combining_command)                                              *)
(* ------------------------------------------------------------------ *)
\* A symbol name is the sequence of its characters; the C string ends with a
\* NUL, which is what is read at the place after the last character.
CharAt(str, p) == IF p >= 1 /\ p <= Len(str) THEN str[p] ELSE "NUL"
DigitChars == <<"0", "1", "2", "3", "4", "5", "6", "7", "8", "9">>
IsDigit(ch) == \E d \in 1..10 : DigitChars[d] = ch
DigitValue(ch) == (CHOOSE d \in 1..10 : DigitChars[d] = ch) - 1

\* The loop of read_decimal_number from the place p, n being the value so far.
RECURSIVE ReadDigits(_, _, _)
ReadDigits(str, p, n) ==
  IF IsDigit(CharAt(str, p))
  THEN ReadDigits(str, p + 1, n * 10 + DigitValue(CharAt(str, p)))
  ELSE [n |-> n, p |-> p]

\* read_decimal_number (&str): the value, and the place str is left at.
read_decimal_number(str, p) ==
  LET sign == IF CharAt(str, p) \in {"-", "<"} THEN -1 ELSE 1
      r == ReadDigits(str, p + 1, 0)
      n == IF r.n = 0 THEN 5 ELSE r.n
  IN [value |-> IF n < 127 THEN n * sign ELSE 127 * sign, p |-> r.p]

\* The place (from 0) of ch in letters, Len(letters) when it is not there.
RECURSIVE PlaceIn(_, _, _)
PlaceIn(letters, ch, q) ==
  IF q >= Len(letters) \/ letters[q + 1] = ch THEN q ELSE PlaceIn(letters, ch, q + 1)

\* read_combining_position (str, &x, &y) on the characters at p and p + 1.
read_combining_position(str, p) ==
  LET y == PlaceIn(<<"t", "c", "b", "B">>, CharAt(str, p), 0)
      x == PlaceIn(<<"l", "c", "r">>, CharAt(str, p + 1), 0)
  IN IF y = 4 \/ x = 3 THEN [rc |-> -1, x |-> 0, y |-> 0]
     ELSE [rc |-> 0, x |-> x, y |-> y]

\* Lines 760-779: the offsets between the two positions, read from place 3,
\* and the place the second position starts at.
ReadOffsets(str) ==
  IF CharAt(str, 3) = "."
  THEN [off_x |-> 128, off_y |-> 128, p |-> 4]
  ELSE LET ry == IF CharAt(str, 3) \in {"+", "-"}
                 THEN read_decimal_number(str, 3)
                 ELSE [value |-> 0, p |-> 3]
           rx == IF CharAt(str, ry.p) \in {"<", ">"}
                 THEN read_decimal_number(str, ry.p)
                 ELSE [value |-> 0, p |-> ry.p]
       IN [off_x |-> rx.value + 128, off_y |-> ry.value + 128, p |-> rx.p]

\* get_combining_command (sym): the command id, 0 when the name is not a
\* combining symbol.
get_combining_command(str) ==
  LET base == read_combining_position(str, 1)
      offs == ReadOffsets(str)
      add == read_combining_position(str, offs.p)
  IN IF base.rc < 0 THEN 0
     ELSE IF add.rc < 0 THEN 0
     ELSE COMBINING_CODE_TO_CMD_ID(
            MAKE_COMBINING_CODE(base.y, base.x, add.y, add.x, offs.off_y, offs.off_x))

\* regcomp of the pattern with '^' in front: the atoms of the patterns the
\* definitions of the model use; any other text does not compile.
regcomp(str) ==
  CASE str = "E" -> [ok |-> TRUE, pattern |-> <<Atom({CatE}, 1, 1, 0)>>]
    [] str = "E*" -> [ok |-> TRUE, pattern |-> <<Atom({CatE}, 0, 3, 0)>>]
    [] str = "E(N)?" -> [ok |-> TRUE,
                         pattern |-> <<Atom({CatE}, 1, 1, 0), Atom({CatN}, 0, 1, 1)>>]
    [] OTHER -> [ok |-> FALSE, pattern |-> << >>]

\* The symbols with a fixed meaning (lines 1024-1047).
BuiltinId(name) ==
  CASE name = "=" -> CMD_ID_COPY
    [] name = "*" -> CMD_ID_REPEAT
    [] name = "<" -> CMD_ID_CLUSTER_BEGIN
    [] name = ">" -> CMD_ID_CLUSTER_END
    [] name = "|" -> CMD_ID_SEPARATOR
    [] name = "[" -> CMD_ID_LEFT_PADDING
    [] name = "]" -> CMD_ID_RIGHT_PADDING
    [] name = "tc.bc" -> CmbTcBc
    [] OTHER -> 0
IsOtfSymbol(name) == name \in {"otf:deva", ":otf=deva"}

\* The source matcher of a rule (lines 896-982); cmd has no sub-commands yet.
LoadMatcher(elt) ==
  LET bad == [ok |-> FALSE, cmd |-> RuleIndex(0, << >>)]
      pl == elt.elts
      size == Len(pl)
  IN CASE elt.k = "mtext" ->
            [ok |-> regcomp(elt.s).ok, cmd |-> RuleRegex(regcomp(elt.s).pattern, << >>)]
       [] elt.k = "integer" -> [ok |-> TRUE, cmd |-> RuleIndex(elt.n, << >>)]
       [] elt.k = "plist" ->
            IF size > 0 /\ pl[1].k = "integer"
            THEN [ok |-> \A q \in 1..size : pl[q].k = "integer",
                  cmd |-> RuleSeq(Tup([q \in 1..size |-> pl[q].n]), << >>)]
            ELSE IF size = 3 /\ pl[1].k = "symbol"
            THEN [ok |-> pl[1].s = "range" /\ pl[2].k = "integer" /\ pl[3].k = "integer",
                  cmd |-> RuleRange(pl[2].n, pl[3].n, << >>)]
            ELSE IF size \in 1..2 /\ pl[1].k = "symbol"
            THEN IF pl[1].s # "font-facility" THEN bad
                 ELSE IF size = 2 /\ pl[2].k = "symbol"
                 THEN [ok |-> pl[2].s = ":otf=deva", cmd |-> RuleOtfSpec(OtfAll, << >>)]
                 ELSE [ok |-> TRUE,
                       cmd |-> RuleHasGlyph(IF size = 2 /\ pl[2].k = "integer"
                                            THEN pl[2].n ELSE -1, << >>)]
            ELSE bad
       [] OTHER -> bad

\* The index (from 1) of the first macro named name, 0 if there is none.
RECURSIVE MacroIndex(_, _, _)
MacroIndex(macros, name, q) ==
  IF q > Len(macros) THEN 0
  ELSE IF macros[q].elts[1].s = name THEN q
  ELSE MacroIndex(macros, name, q + 1)

\* load_command (stage, plist, macros, id): the id of the command, or
\* INVALID_CMD_ID, and stage->cmds.  LoadSubs is the loop over the
\* sub-commands elts[q ..] of a rule or a cond, LoadList the case of a list
\* whose command is stored at stage->cmds[idx].
RECURSIVE load_command(_, _, _, _)
RECURSIVE LoadSubs(_, _, _, _, _)
SubLoaded(r, elts, q, macros, ids) ==
  IF r.id = INVALID_CMD_ID \/ r.id = -2
  THEN [ok |-> FALSE, id |-> r.id, cmds |-> r.cmds, ids |-> ids]
  ELSE LoadSubs(r.cmds, elts, q + 1, macros, Append(ids, r.id))
LoadSubs(cmds, elts, q, macros, ids) ==
  IF q > Len(elts) THEN [ok |-> TRUE, id |-> 0, cmds |-> cmds, ids |-> ids]
  ELSE SubLoaded(load_command(cmds, elts[q], macros, INVALID_CMD_ID),
                 elts, q, macros, ids)

ListHead(elt) ==
  IF elt = << >> THEN [ok |-> FALSE, cmd |-> MaxCmd]
  ELSE IF elt[1].k = "symbol" THEN [ok |-> elt[1].s = "cond", cmd |-> CondCmd(<< >>)]
  ELSE LoadMatcher(elt[1])
ListLoaded(r, idx) ==
  IF ~r.ok THEN [id |-> r.id, cmds |-> r.cmds]
  ELSE [id |-> INDEX_TO_CMD_ID(idx), cmds |-> [r.cmds EXCEPT ![idx + 1].cmd_ids = r.ids]]
LoadList(cmds, elt, macros, idx) ==
  IF ~ListHead(elt).ok THEN [id |-> INVALID_CMD_ID, cmds |-> cmds]
  ELSE ListLoaded(LoadSubs([cmds EXCEPT ![idx + 1] = ListHead(elt).cmd],
                           elt, 2, macros, << >>), idx)
LoadMacro(cmds, macros, m) ==
  IF m = 0 THEN [id |-> INVALID_CMD_ID, cmds |-> cmds]
  ELSE IF cmds[m + 1].type # "MAX" THEN [id |-> INDEX_TO_CMD_ID(m), cmds |-> cmds]
  ELSE IF Len(macros[m].elts) < 2 THEN [id |-> INVALID_CMD_ID, cmds |-> cmds]
  ELSE load_command(cmds, macros[m].elts[2], macros, INDEX_TO_CMD_ID(m))

load_command(cmds, plist, macros, id0) ==
  CASE plist.k = "integer" ->
         [id |-> IF plist.n < 0 THEN INVALID_CMD_ID ELSE plist.n, cmds |-> cmds]
    [] plist.k = "plist" ->
         IF id0 = INVALID_CMD_ID
         THEN LoadList(Append(cmds, MaxCmd), plist.elts, macros, Len(cmds))
         ELSE LoadList(cmds, plist.elts, macros, CMD_ID_TO_INDEX(id0))
    [] plist.k = "symbol" ->
         IF IsOtfSymbol(plist.s)
         THEN IF id0 = INVALID_CMD_ID
              THEN [id |-> INDEX_TO_CMD_ID(Len(cmds)), cmds |-> Append(cmds, OtfCmd(OtfAll))]
              ELSE [id |-> id0,
                    cmds |-> [cmds EXCEPT ![CMD_ID_TO_INDEX(id0) + 1] = OtfCmd(OtfAll)]]
         ELSE IF BuiltinId(plist.s) # 0 THEN [id |-> BuiltinId(plist.s), cmds |-> cmds]
         ELSE LoadMacro(cmds, macros, MacroIndex(macros, plist.s, 1))
    [] OTHER -> [id |-> INVALID_CMD_ID, cmds |-> cmds]

\* load_generator (plist): plist is the entry command followed by the
\* macros.  The result is the stage (its command array), or NULL.
NoStage == [null |-> TRUE, cmds |-> << >>]
\* The array of n commands not loaded yet (lines 1117-1127).
RECURSIVE DummyCmds(_)
DummyCmds(n) == IF n = 0 THEN << >> ELSE Append(DummyCmds(n - 1), MaxCmd)
GeneratorLoaded(r) ==
  IF r.id = INVALID_CMD_ID \/ r.id = -2 THEN NoStage ELSE [null |-> FALSE, cmds |-> r.cmds]
load_generator(plist) ==
  IF \E q \in 2..Len(plist) :
       plist[q].k # "plist" \/ plist[q].elts = << >> \/ plist[q].elts[1].k # "symbol"
  THEN NoStage
  ELSE GeneratorLoaded(load_command(DummyCmds(Len(plist)), plist[1],
                                    Slice(plist, 1, Len(plist)), INDEX_TO_CMD_ID(0)))

(* ------------------------------------------------------------------ *)
(* The registry of layout tables: load_flt, list_flt, mflt_get,        *)
(* mflt_find                                                           *)
(* ------------------------------------------------------------------ *)
MAXCHAR == 1114111

\* One layout table of the database: whether its header loads and has the
\* font properties list_flt asks for, the properties, and the sections of
\* its body in file order.
TblDef(name, props, family, registry, otf, body) ==
  [name |-> name, props |-> props, family |-> family, registry |-> registry,
   otf |-> otf, body |-> body]
CategorySection(table) == [sym |-> "category", table |-> table, plist |-> << >>]
GeneratorSection(plist) == [sym |-> "generator", table |-> << >>, plist |-> plist]

\* The MFLT list_flt allocates with calloc for entry mdb of the database.
NewFlt(name, mdb) ==
  [name |-> name, mdb |-> mdb, family |-> "", registry |-> "", otf |-> NoOtf,
   coverage |-> << >>, stages |-> << >>]

\* The loop over the sections of a table (lines 1218-1262).  category is the
\* category table in force (<< >> when none); the result tells whether the
\* loop stopped before the end of the list.
RECURSIVE LoadSections(_, _, _, _)
LoadSections(f, body, q, category) ==
  IF q > Len(body) THEN [flt |-> f, broke |-> FALSE]
  ELSE IF body[q].sym = "category"
  THEN IF category = << >> /\ f.coverage # << >>
       THEN LoadSections(f, body, q + 1, f.coverage)
       ELSE LoadSections(IF f.coverage = << >>
                         THEN [f EXCEPT !.coverage = body[q].table] ELSE f,
                         body, q + 1, body[q].table)
  ELSE IF category = << >> \/ load_generator(body[q].plist).null
  THEN [flt |-> f, broke |-> TRUE]
  ELSE LoadSections([f EXCEPT !.stages =
                       Append(@, Stage(category, load_generator(body[q].plist).cmds))],
                    body, q + 1, category)

SectionsLoaded(r) ==
  IF r.broke THEN [rc |-> -1, flt |-> [r.flt EXCEPT !.stages = << >>]]
  ELSE [rc |-> 0, flt |-> r.flt]

\* The sections mdatabase__load_for_keys keeps when list_flt asks for the
\* keys of the category sections.
RECURSIVE CategorySections(_)
CategorySections(body) ==
  IF body = << >> THEN << >>
  ELSE IF body[1].sym = "category" THEN <<body[1]>> \o CategorySections(Tail(body))
  ELSE CategorySections(Tail(body))

\* load_flt (flt, key_list): with key_list the font properties and the
\* coverage are read, without it the whole table is compiled.
load_flt(f, def, key_list) ==
  IF key_list
  THEN IF ~def.props THEN [rc |-> -1, flt |-> f]
       ELSE SectionsLoaded(LoadSections(
              [f EXCEPT !.family = def.family, !.registry = def.registry,
                        !.otf = def.otf],
              CategorySections(def.body), 1, << >>))
  ELSE SectionsLoaded(LoadSections(f, def.body, 1, << >>))

mchartable_min_char(table) ==
  CHOOSE x \in {table[k][1] : k \in 1..Len(table)} :
    \A y \in {table[k][1] : k \in 1..Len(table)} : x <= y
mchartable_max_char(table) ==
  CHOOSE x \in {table[k][2] : k \in 1..Len(table)} :
    \A y \in {table[k][2] : k \in 1..Len(table)} : x >= y

\* The loop of list_flt over the database (lines 1322-1365): a table that
\* loads is pushed on the front of flt_list and widens the coverage bounds.
RECURSIVE ListFrom(_, _, _)
ListFrom(base, q, reg) ==
  IF q > Len(base) THEN reg
  ELSE IF load_flt(NewFlt(base[q].name, q), base[q], TRUE).rc < 0
  THEN ListFrom(base, q + 1, reg)
  ELSE ListFrom(base, q + 1,
         [list |-> [null |-> FALSE,
                    tables |-> <<load_flt(NewFlt(base[q].name, q), base[q], TRUE).flt>>
                               \o reg.list.tables],
          min |-> IF reg.list.tables = << >>
                  THEN mchartable_min_char(
                         load_flt(NewFlt(base[q].name, q), base[q], TRUE).flt.coverage)
                  ELSE Min2(reg.min, mchartable_min_char(
                         load_flt(NewFlt(base[q].name, q), base[q], TRUE).flt.coverage)),
          max |-> IF reg.list.tables = << >>
                  THEN mchartable_max_char(
                         load_flt(NewFlt(base[q].name, q), base[q], TRUE).flt.coverage)
                  ELSE Max2(reg.max, mchartable_max_char(
                         load_flt(NewFlt(base[q].name, q), base[q], TRUE).flt.coverage))])

\* list_flt (): rc is -1 when the database lists no layout table.
list_flt(base, reg) ==
  IF base = << >> THEN [rc |-> -1, reg |-> reg]
  ELSE [rc |-> 0, reg |-> ListFrom(base, 1, [reg EXCEPT !.list = [null |-> FALSE,
                                                                  tables |-> << >>]])]

\* The registry after "if (! flt_list && list_flt () < 0)".
Listed(base, reg) == IF reg.list.null THEN list_flt(base, reg) ELSE [rc |-> 0, reg |-> reg]

\* CHECK_FLT_STAGES (flt): the table is compiled on first use.
CHECK_FLT_STAGES(f, base) ==
  IF f.stages # << >> THEN [ok |-> TRUE, flt |-> f]
  ELSE [ok |-> load_flt(f, base[f.mdb], FALSE).rc = 0,
        flt |-> load_flt(f, base[f.mdb], FALSE).flt]

\* The canonical combining classes of the characters of the model
\* (from, to, class), as mchar_get_prop_table (Mcombining_class) gives them.
CombiningClassTable == << <<66, 66, 230>>, <<68, 68, 220>>, <<69, 69, 9>> >>

\* setup_combining_coverage: the category of a combining class.
CombiningCategory(combining_class) ==
  IF combining_class < 200 THEN 97
  ELSE IF combining_class <= 204
  THEN IF combining_class % 2 = 0 THEN 98 + (combining_class - 200) \div 2 ELSE 0
  ELSE IF combining_class <= 232
  THEN IF combining_class % 2 = 0 THEN 101 + (combining_class - 208) \div 2 ELSE 0
  ELSE IF combining_class = 233 THEN 114
  ELSE IF combining_class = 234 THEN 115
  ELSE IF combining_class = 240 THEN 116
  ELSE 0

RECURSIVE CombiningCoverage(_)
CombiningCoverage(classes) ==
  IF classes = << >> THEN << >>
  ELSE << <<classes[1][1], classes[1][2], CombiningCategory(classes[1][3])>> >>
       \o CombiningCoverage(Tail(classes))

setup_combining_flt(f) ==
  [f EXCEPT !.coverage = @ \o << <<0, MAXCHAR, 117>> >>
                           \o CombiningCoverage(CombiningClassTable)]

\* Position of the first table called name in the list, 0 when none.
RECURSIVE mplist_get(_, _, _)
mplist_get(tables, name, q) ==
  IF q > Len(tables) THEN 0
  ELSE IF tables[q].name = name THEN q
  ELSE mplist_get(tables, name, q + 1)

\* The table mflt_get returns once it is found at position q: compiled, and
\* for the table "combining" with the coverage set up.
GetCheckedMut(reg, q, chk) ==
  IF chk.flt.name = "combining" /\ mchartable_lookup(chk.flt.coverage, 0) = 0
  THEN [value |-> chk.flt.mdb,
        reg |-> [reg EXCEPT !.list.tables[q] = setup_combining_flt(chk.flt)]]
  ELSE [value |-> chk.flt.mdb, reg |-> [reg EXCEPT !.list.tables[q] = chk.flt]]
GetChecked(reg, q, chk) ==
  IF ~chk.ok THEN [value |-> 0, reg |-> [reg EXCEPT !.list.tables[q] = chk.flt]]
  ELSE IF chk.flt.name = "combining" /\ mchartable_lookup(chk.flt.coverage, 0) = 0
  THEN [value |-> chk.flt.mdb,
        reg |-> [reg EXCEPT !.list.tables[q] = setup_combining_flt(chk.flt)]]
  ELSE [value |-> chk.flt.mdb, reg |-> [reg EXCEPT !.list.tables[q] = chk.flt]]

GetListed(base, reg, name) ==
  IF mplist_get(reg.list.tables, name, 1) = 0 THEN [value |-> 0, reg |-> reg]
  ELSE GetChecked(reg, mplist_get(reg.list.tables, name, 1),
                  CHECK_FLT_STAGES(reg.list.tables[mplist_get(reg.list.tables, name, 1)],
                                   base))

\* mflt_get (name): value is the table (its database entry), 0 for NULL.
mflt_get(base, reg, name) ==
  IF Listed(base, reg).rc < 0 THEN [value |-> 0, reg |-> reg]
  ELSE GetListed(base, Listed(base, reg).reg, name)

\* Whether the loop of mflt_find over flt_list passes table f by for
\* character c and font fnt (lines 2281-2296).
FindSkipsMut(f, c, fnt) ==
  \/ f.registry \notin {"unicode-bmp", "unicode-full"}
  \/ (c >= 0 /\ mchartable_lookup(f.coverage, c) = 0)
FindSkips(f, c, fnt) ==
  \/ f.registry \notin {"unicode-bmp", "unicode-full"}
  \/ (f.family # "" /\ f.family # fnt.family)
  \/ (c >= 0 /\ mchartable_lookup(f.coverage, c) = 0)

\* Whether a table with an OTF specification cannot be used with the font
\* (lines 2297-2314).
OtfUnusable(f, fnt) ==
  IF ~fnt.has_check_otf
  THEN f.otf.gsub = "list" \/ f.otf.gpos = "list"
  ELSE ~check_otf(fnt, f.otf)

RECURSIVE FindWithFont(_, _, _, _, _)
FindWithFont(tables, q, c, fnt, best) ==
  IF q > Len(tables) THEN best
  ELSE IF FindSkips(tables[q], c, fnt) THEN FindWithFont(tables, q + 1, c, fnt, best)
  ELSE IF tables[q].otf.sym # ""
  THEN IF OtfUnusable(tables[q], fnt) THEN FindWithFont(tables, q + 1, c, fnt, best)
       ELSE tables[q].mdb
  ELSE FindWithFont(tables, q + 1, c, fnt, tables[q].mdb)

RECURSIVE FindWithoutFont(_, _, _)
FindWithoutFont(tables, q, c) ==
  IF q > Len(tables) THEN 0
  ELSE IF mchartable_lookup(tables[q].coverage, c) # 0 THEN tables[q].mdb
  ELSE FindWithoutFont(tables, q + 1, c)

\* mflt_find (c, font): value is the table (its database entry), 0 for NULL.
mflt_find(base, reg, c, has_font, fnt) ==
  IF Listed(base, reg).rc < 0 THEN [value |-> 0, reg |-> reg]
  ELSE [value |-> IF has_font
                  THEN FindWithFont(Listed(base, reg).reg.list.tables, 1, c, fnt, 0)
                  ELSE IF c >= 0
                  THEN FindWithoutFont(Listed(base, reg).reg.list.tables, 1, c)
                  ELSE 0,
        reg |-> Listed(base, reg).reg]

(* ------------------------------------------------------------------ *)
(* State of one call of mflt_run                                       *)
(* ------------------------------------------------------------------ *)
VARIABLES
  gstring,    \* the caller's glyph string: [glyphs, used, allocated, r2l]
  font,       \* the font adapter
  flt,        \* the layout table of the call (an index of Tables)
  from,       \* argument from
  to,         \* argument to, shifted as segments are spliced
  this_from,  \* start of the part not yet processed
  this_to,    \* end of the current segment
  out,        \* mflt_run's out: [allocated]
  i,          \* attempt counter of the retry loop
  j,          \* result of run_stages
  ctx,        \* FontLayoutContext of the current run_stages call
  rs,         \* locals of run_stages: [stage_idx, from, to, orig_from, orig_to, len]
  pc,         \* position in mflt_run / run_stages
  ret,        \* value returned by mflt_run
  wild,       \* content of memory the program reads without having written it
  h,          \* history of the call (observation only)
  call,       \* one application of run_command: its arguments and its result
  db,         \* the layout tables of the database, in the order it lists them
  flt_list,   \* the registry: [null, tables], newest first
  flt_min_coverage,  \* lowest character of any registered coverage
  flt_max_coverage,  \* highest character of any registered coverage
  res,        \* the last registry call: its arguments and its result
  gen,        \* the section handed to load_generator / load_category_table
  compiled,   \* the stage load_generator returned for gen
  cat         \* the table load_category_table returned for gen: [null, table]

regvars == <<db, flt_list, flt_min_coverage, flt_max_coverage, res, gen, compiled,
             cat>>
vars == <<gstring, font, flt, from, to, this_from, this_to, out, i, j, ctx, rs,
          pc, ret, wild, h, call, db, flt_list, flt_min_coverage,
          flt_max_coverage, res, gen, compiled, cat>>

WildValues == {-1, 0, 65}

\* The static flt_list before list_flt has run (a null pointer), and the
\* registry variables of a program that has not touched the registry.
NoList == [null |-> TRUE, tables |-> << >>]
NoRes == [op |-> "none", name |-> "", c |-> 0, font |-> "", value |-> 0,
          skipped |-> FALSE]
RegUnused ==
  /\ db = << >>
  /\ flt_list = NoList
  /\ flt_min_coverage = 0
  /\ flt_max_coverage = 0
  /\ res = NoRes
  /\ gen = << >>
  /\ compiled = NoStage
  /\ cat = NoTable

NoCtx == [stage |-> Stage(<< >>, << >>), font |-> FontPlain,
          in |-> [glyphs |-> << >>], out |-> [glyphs |-> << >>, allocated |-> 0],
          encoded |-> << >>, match_indices |-> << >>, code_offset |-> 0,
          cluster_begin_idx |-> 0, cluster_begin_pos |-> 0, cluster_end_pos |-> 0,
          combining_code |-> 0, left_padding |-> 0, check_mask |-> {},
          wild |-> 0, ub |-> {}, trace |-> << >>, steps |-> << >>]
NoCall == [id |-> 0, from |-> 0, to |-> 0, pre |-> NoCtx, pos |-> 0, post |-> NoCtx]
NoRs == [stage_idx |-> 0, from |-> 0, to |-> 0, orig_from |-> 0, orig_to |-> 0, len |-> 0]

\* A glyph as the caller hands it in: only the character is meaningful.
CallerGlyph(c) == [NormGlyph(c, 0) EXCEPT !.code = 0]

\* A glyph of the caller outside [from, to): mflt_run never looks into it, so
\* one value a place stands for them all; the code field tells the places
\* apart.
BystanderGlyph(k) == [CallerGlyph(67) EXCEPT !.code = 100 + k]

Configs == {[flt |-> t, font |-> FontPlain] : t \in 1..Len(Tables)}
           \cup {[flt |-> 7, font |-> FontOtf], [flt |-> 7, font |-> FontBroken]}

Init ==
  \E used \in 1..MaxUsed, slack \in {0, MaxSlack}, cfg \in Configs, w \in WildValues,
     r2l \in BOOLEAN :
    \E f \in 0..used :
      \E t \in f..used :
       \E cs \in [(f + 1)..t -> Chars] :
        /\ gstring = [glyphs |-> Tup([k \in 1..(used + slack) |->
                                    IF k > f /\ k <= t THEN CallerGlyph(cs[k])
                                    ELSE IF k <= used THEN BystanderGlyph(k)
                                    ELSE WildGlyph(w)]),
                      used |-> used, allocated |-> used + slack, r2l |-> r2l]
        /\ font = cfg.font
        /\ flt = cfg.flt
        /\ from = f
        /\ to = t
        /\ this_from = f
        /\ this_to = f
        /\ out = [allocated |-> 0]
        /\ i = 0
        /\ j = 0
        /\ ctx = NoCtx
        /\ rs = NoRs
        /\ pc = "start"
        /\ ret = 0
        /\ wild = w
        /\ h = [g0 |-> gstring, to0 |-> t, nseg |-> 0, splices |-> 0, lost |-> 0,
                delta |-> 0, ub |-> {}, log |-> << >>,
                norm |-> << >>, before |-> << >>, stageout |-> << >>, ran |-> << >>, padin |-> << >>]
        /\ call = NoCall
        /\ RegUnused

(* ------------------------------------------------------------------ *)
(* mflt_run                                                            *)
(* ------------------------------------------------------------------ *)
Coverage == Tables[flt].coverage
Covered(idx) == mchartable_lookup(Coverage, GREF(gstring, idx, wild).c) # 0

\* Lines 2379-2393: out.allocated and the reset of the glyphs of [from, to).
Normalize ==
  /\ pc = "start"
  /\ out' = [allocated |-> (to - from) * AllocFactor]
  /\ gstring' = [gstring EXCEPT !.glyphs =
                   Tup([k \in 1..Len(@) |-> IF k - 1 >= from /\ k - 1 < to
                                        THEN NormGlyph(@[k].c, k - 1) ELSE @[k]])]
  /\ this_from' = from
  /\ pc' = "segment"
  /\ h' = [h EXCEPT !.norm = gstring'.glyphs]
  /\ UNCHANGED <<font, flt, from, to, this_to, i, j, ctx, rs, ret, wild, call>>
  /\ UNCHANGED regvars

\* The first index k in lo .. hi-1 whose coverage test answers want, hi when
\* there is none.
RECURSIVE Scan(_, _, _)
Scan(want, lo, hi) == IF lo < hi /\ Covered(lo) # want THEN Scan(want, lo + 1, hi) ELSE lo

\* Lines 2395-2452 (fixed-table mode): pass the uncovered glyphs through the
\* font and delimit the next covered segment.
FindSegment ==
  /\ pc = "segment"
  /\ IF this_from >= to
     THEN /\ pc' = "reverse"
          /\ UNCHANGED <<gstring, this_from, this_to, i, h>>
     ELSE LET start == Scan(TRUE, this_from, to)
              stop == Scan(FALSE, start, to)
              passed == get_metrics(get_glyph_id(gstring.glyphs, this_from, start),
                                    this_from, start)
          IN /\ gstring' = [gstring EXCEPT !.glyphs = passed]
             /\ this_from' = start
             /\ IF start = to
                THEN /\ this_to' = start
                     /\ pc' = "reverse"
                     /\ UNCHANGED <<i, h>>
                ELSE /\ this_to' = stop
                     /\ i' = 0
                     /\ pc' = "setup"
                     /\ h' = [h EXCEPT !.nseg = @ + 1]
  /\ UNCHANGED <<font, flt, from, to, out, j, ctx, rs, ret, wild, call>>
  /\ UNCHANGED regvars


\* Lines 2471-2477 and 1876-1893: set up the context and enter run_stages.
CallRunStages ==
  /\ pc = "setup"
  /\ LET in == [glyphs |-> gstring.glyphs]
         from_pos == GREF(in, this_from, wild).from
         to_pos == GREF(in, this_to - 1, wild).to
     IN /\ ctx' = [stage |-> Tables[flt].stages[1], font |-> font,
                   in |-> in,
                   out |-> [glyphs |-> << >>, allocated |-> out.allocated],
                   encoded |-> Tup([k \in 1..out.allocated |-> wild]),
                   match_indices |-> Tup([k \in 1..NMATCH |-> wild]),
                   code_offset |-> 0, cluster_begin_idx |-> -1,
                   cluster_begin_pos |-> 0, cluster_end_pos |-> 0,
                   combining_code |-> 0, left_padding |-> 0, check_mask |-> {},
                   wild |-> wild, ub |-> {}, trace |-> << >>,
                   steps |-> << >>]
        /\ rs' = [stage_idx |-> 0, from |-> this_from, to |-> this_to,
                  orig_from |-> this_from, orig_to |-> this_to,
                  len |-> to_pos - from_pos]
  /\ pc' = "stage"
  /\ h' = [h EXCEPT !.before = gstring.glyphs, !.ran = << >>]
  /\ UNCHANGED <<gstring, font, flt, from, to, this_from, this_to, out, i, j, ret, wild, call>>
  /\ UNCHANGED regvars

\* The category letter of a glyph under the stage's table (lines 1906-1910).
EncOf(table, g) ==
  IF g.encoded # 0
  THEN (IF g.c > 0 THEN mchartable_lookup(table, g.c) ELSE 1)
  ELSE IF g.code # 0 THEN mchartable_lookup(table, g.code) ELSE 32

\* Where the encoding loop of a stage stops: at the first glyph without a
\* category in the first stage, at to otherwise.
RECURSIVE EncodeEnd(_, _, _, _, _)
EncodeEnd(c, table, stage_idx, k, t) ==
  IF k >= t THEN t
  ELSE IF EncOf(table, GREF(c.in, k, c.wild)) = 0 /\ stage_idx = 0 THEN k
  ELSE EncodeEnd(c, table, stage_idx, k + 1, t)

\* Lines 1900-1923: the context at the start of a stage.
StageEntry(c, stage, stage_idx, f, t) ==
  LET table == stage.category
      t2 == EncodeEnd(c, table, stage_idx, f, t)
      enc == Tup([k \in 1..Len(c.encoded) |->
                IF k - 1 >= f /\ k - 1 < t2 THEN EncOf(table, GREF(c.in, k - 1, c.wild))
                ELSE IF k - 1 = t2 THEN 0
                ELSE c.encoded[k]])
      c1 == [c EXCEPT !.stage = stage, !.code_offset = 0, !.combining_code = 0,
                      !.left_padding = 0, !.encoded = enc,
                      !.match_indices = Tup([k \in 1..NMATCH |->
                                           IF k = 1 THEN f ELSE IF k = 2 THEN t2 ELSE -1])]
  IN [to |-> t2, ctx |-> Flag(c1, t2 >= Len(c.encoded), "encoded")]

\* A loop that goes on after a stage has run out of room.
StageFailedMut(result) == result < -1

\* Lines 1943-1944: a negative result of a stage ends run_stages.
StageFailed(result) == result < 0

\* Lines 1895-1965: one stage of run_stages.  h.ran holds, for every stage
\* run since run_stages was entered, its index, the command and range handed
\* to run_command, the glyphs it read and wrote and its result (observation
\* only).
RunStage ==
  /\ pc = "stage"
  /\ LET stages == Tables[flt].stages
         e == StageEntry(ctx, stages[rs.stage_idx + 1], rs.stage_idx, rs.from, rs.to)
         r == run_command(INDEX_TO_CMD_ID(0), rs.from, e.to, e.ctx)
         g1 == IF rs.stage_idx = 0
               THEN [gstring EXCEPT !.glyphs = r.ctx.in.glyphs] ELSE gstring
         obs == Append(h.ran, [idx |-> rs.stage_idx, stage |-> e.ctx.stage,
                               id |-> INDEX_TO_CMD_ID(0),
                               from |-> rs.from, to |-> rs.to,
                               in |-> e.ctx.in.glyphs, out |-> r.ctx.out.glyphs,
                               result |-> r.pos])
     IN /\ gstring' = g1
        /\ IF StageFailed(r.pos)
           THEN /\ j' = r.pos
                /\ ctx' = r.ctx
                /\ rs' = [rs EXCEPT !.to = e.to]
                /\ pc' = "after"
                /\ h' = [h EXCEPT !.ub = @ \cup r.ctx.ub, !.ran = obs]
           ELSE IF rs.stage_idx + 1 = Len(stages)
           THEN /\ ctx' = r.ctx
                /\ rs' = [rs EXCEPT !.to = e.to]
                /\ pc' = "post"
                /\ h' = [h EXCEPT !.ub = @ \cup r.ctx.ub,
                                  !.stageout = r.ctx.out.glyphs, !.ran = obs]
                /\ j' = j
           ELSE /\ ctx' = [r.ctx EXCEPT
                             !.in = [glyphs |-> r.ctx.out.glyphs],
                             !.out = [glyphs |-> << >>, allocated |-> r.ctx.out.allocated]]
                /\ rs' = [rs EXCEPT !.stage_idx = @ + 1, !.from = 0,
                                    !.to = Used(r.ctx.out)]
                /\ pc' = "stage"
                /\ h' = [h EXCEPT !.ub = @ \cup r.ctx.ub, !.ran = obs]
                /\ j' = j
  /\ UNCHANGED <<font, flt, from, to, this_from, this_to, out, i, ret, wild, call>>
  /\ UNCHANGED regvars

\* Lines 1967-2111: the post-processing of the last stage's output.
PostPass ==
  /\ pc = "post"
  /\ ctx' = PostProcess(ctx, rs.orig_from, rs.len, wild)
  /\ pc' = "splice"
  /\ h' = [h EXCEPT !.ub = @ \cup ctx'.ub,
                    !.padin = IF Used(ctx.out) = 0 THEN << >>
                              ELSE BeforePadding(ctx, rs.orig_from, rs.len, wild).glyphs]
  /\ UNCHANGED <<gstring, font, flt, from, to, this_from, this_to, out, i, j, rs,
                 ret, wild, call>>
  /\ UNCHANGED regvars

\* Lines 2113-2115: replace the segment by the output and return.
Splice ==
  /\ pc = "splice"
  /\ LET r == GREPLACE(ctx.out.glyphs, 0, Used(ctx.out), gstring,
                       rs.orig_from, rs.orig_to, wild)
     IN /\ gstring' = r.tgt
        /\ j' = rs.orig_from + Used(ctx.out)
        /\ h' = [h EXCEPT !.splices = IF r.result = 0 THEN @ + 1 ELSE @,
                          !.lost = IF r.result = 0 THEN @ ELSE @ + 1,
                          !.delta = @ + (Used(ctx.out) - (rs.orig_to - rs.orig_from)),
                          !.ub = @ \cup (IF r.oob THEN {"gstring"} ELSE {})]
  /\ pc' = "after"
  /\ UNCHANGED <<font, flt, from, to, this_from, this_to, out, i, ctx, rs, ret, wild, call>>
  /\ UNCHANGED regvars

\* An end index that moves one glyph further than the output did.
ShiftedToFar(t, result, seg_to) == t + (result - seg_to) + 1

\* Line 2486: the end of the range follows the change of length of the segment.
ShiftedTo(t, result, seg_to) == t + (result - seg_to)

\* Lines 2478-2487 and 2506: retry with a doubled buffer, give up, or go on
\* with the next segment.
AfterStages ==
  /\ pc = "after"
  /\ h' = [h EXCEPT !.log = Append(@, [seg |-> h.nseg, alloc |-> out.allocated,
                                        res |-> j])]
  /\ IF j = -2
     THEN /\ out' = [out EXCEPT !.allocated = @ * 2]
          /\ i' = i + 1
          /\ IF i + 1 < MaxAttempts
             THEN /\ pc' = "setup"
                  /\ UNCHANGED <<ret, to, this_from, this_to>>
             ELSE /\ ret' = j
                  /\ pc' = "done"
                  /\ UNCHANGED <<to, this_from, this_to>>
     ELSE IF j < 0
     THEN /\ ret' = j
          /\ pc' = "done"
          /\ UNCHANGED <<out, i, to, this_from, this_to>>
     ELSE /\ to' = ShiftedTo(to, j, this_to)
          /\ this_to' = j
          /\ this_from' = j
          /\ pc' = "segment"
          /\ UNCHANGED <<out, i, ret>>
  /\ UNCHANGED <<gstring, font, flt, from, j, ctx, rs, wild, call>>
  /\ UNCHANGED regvars

\* Lines 2517-2523: copy the groups of the saved glyphs back in reverse order.
\* saved holds len glyphs; it is indexed as the loop indexes it.
RECURSIVE ReverseLoop(_, _, _, _, _)
ReverseLoop(st, saved, ii, jj, t) ==
  IF ii >= t THEN st
  ELSE LET k == CHOOSE k \in (ii + 1)..t :
                  /\ \A q \in (ii + 1)..(k - 1) : GREF(saved, q, wild).xadv = 0
                  /\ (k = t \/ GREF(saved, k, wild).xadv # 0)
           j2 == jj - (k - ii)
           gl == Tup([p \in 1..Len(st.glyphs) |->
                    IF p - 1 >= j2 /\ p - 1 < j2 + (k - ii)
                    THEN GREF(saved, ii + (p - 1 - j2), wild)
                    ELSE st.glyphs[p]])
       IN ReverseLoop([glyphs |-> gl,
                       oob |-> st.oob \/ k - 1 >= Len(saved.glyphs)
                                      \/ (k < t /\ k >= Len(saved.glyphs))],
                      saved, k, j2, t)

\* Lines 2509-2526: the right-to-left reordering and the return.
Reverse ==
  /\ pc = "reverse"
  /\ IF gstring.r2l
     THEN LET len == to - from
              saved == [glyphs |-> Tup([k \in 1..len |-> GREF(gstring, from + k - 1, wild)])]
              r == ReverseLoop([glyphs |-> gstring.glyphs, oob |-> FALSE],
                               saved, from, to, to)
          IN /\ gstring' = [gstring EXCEPT !.glyphs = r.glyphs]
             /\ h' = [h EXCEPT !.ub = @ \cup (IF r.oob THEN {"r2l"} ELSE {})]
     ELSE UNCHANGED <<gstring, h>>
  /\ ret' = to
  /\ pc' = "done"
  /\ UNCHANGED <<font, flt, from, to, this_from, this_to, out, i, j, ctx, rs, wild, call>>
  /\ UNCHANGED regvars

Next ==
  \/ Normalize
  \/ FindSegment
  \/ CallRunStages
  \/ RunStage
  \/ PostPass
  \/ Splice
  \/ AfterStages
  \/ Reverse

Spec == Init /\ [][Next]_vars

\* mflt_run on a short range that does not start at the head of the caller's
\* glyph string: lead glyphs of the caller lie before from, as when a caller
\* shapes a run in the middle of a line.
MaxLead == 4    \* most glyphs of the caller before from
MaxRange == 2   \* longest range [from, to) handed to mflt_run

InitEnc ==
  \E lead \in 0..MaxLead, n \in 1..MaxRange, slack \in {0, MaxSlack}, cfg \in Configs,
     w \in WildValues, r2l \in BOOLEAN :
    \E cs \in [(lead + 1)..(lead + n) -> Chars] :
      /\ gstring = [glyphs |-> Tup([k \in 1..(lead + n + slack) |->
                                  IF k > lead /\ k <= lead + n THEN CallerGlyph(cs[k])
                                  ELSE IF k <= lead THEN BystanderGlyph(k)
                                  ELSE WildGlyph(w)]),
                    used |-> lead + n, allocated |-> lead + n + slack, r2l |-> r2l]
      /\ font = cfg.font
      /\ flt = cfg.flt
      /\ from = lead
      /\ to = lead + n
      /\ this_from = lead
      /\ this_to = lead
      /\ out = [allocated |-> 0]
      /\ i = 0
      /\ j = 0
      /\ ctx = NoCtx
      /\ rs = NoRs
      /\ pc = "start"
      /\ ret = 0
      /\ wild = w
      /\ h = [g0 |-> gstring, to0 |-> lead + n, nseg |-> 0, splices |-> 0, lost |-> 0,
              delta |-> 0, ub |-> {}, log |-> << >>,
              norm |-> << >>, before |-> << >>, stageout |-> << >>, ran |-> << >>,
              padin |-> << >>]
      /\ call = NoCall
      /\ RegUnused

SpecEnc == InitEnc /\ [][Next]_vars

(* ------------------------------------------------------------------ *)
(* One command applied to one context                                  *)
(* ------------------------------------------------------------------ *)
MaxIn == 3      \* longest input run of a command
MaxRoom == 2    \* most free elements of the output buffer

\* (cond ((65 66) 256) ((65) 257)), the same alternatives in the other order,
\* (range 65 66) with the direct code 500, an OTF command, the literal
\* sequences themselves and (cond ((65) 257) 301 302).
CmdStage == Stage(CatAB,
  << RuleIndex(0, <<IDX(1)>>),
     CondCmd(<<IDX(3), IDX(4)>>),
     CondCmd(<<IDX(4), IDX(3), IDX(5)>>),
     RuleSeq(<<65, 66>>, <<256>>),
     RuleSeq(<<65>>, <<257>>),
     RuleSeq(<<66, 66>>, <<258, CMD_ID_COPY>>),
     RuleRange(65, 66, <<500>>),
     OtfCmd(OtfAll),
     CondCmd(<<IDX(4), 301, 302>>) >>)

SeqIds == {IDX(3), IDX(4), IDX(5)}
CondIds == {IDX(1), IDX(2)}
RangeId == IDX(6)
OtfId == IDX(7)
DirectCondId == IDX(8)
CmdIds == SeqIds \cup CondIds \cup
          {RangeId, OtfId, DirectCondId, 300, CMD_ID_COPY, CMD_ID_SEPARATOR, CMD_ID_CLUSTER_BEGIN,
           CMD_ID_CLUSTER_END, CMD_ID_LEFT_PADDING, CMD_ID_RIGHT_PADDING, CmbTcBc}

\* The pending state a command can find: nothing, a code offset, a combining
\* code, a left padding.
Pendings == {[code_offset |-> 0, combining_code |-> 0, left_padding |-> 0],
             [code_offset |-> 1, combining_code |-> 0, left_padding |-> 0],
             [code_offset |-> 0, combining_code |-> CMD_ID_TO_COMBINING_CODE(CmbTcBc),
              left_padding |-> 0],
             [code_offset |-> 0, combining_code |-> 0, left_padding |-> 1]}

\* The context of a later stage whose input is cs and whose output, allocated
\* for a one-glyph segment, already holds used glyphs.
CmdCtx(cs, used, fnt, p, cl, w) ==
  LET c == [NoCtx EXCEPT
              !.font = fnt,
              !.in = [glyphs |-> Tup([k \in 1..Len(cs) |-> NormGlyph(cs[k], k - 1)])],
              !.out = [glyphs |-> Tup([k \in 1..used |-> NormGlyph(67, 0)]),
                       allocated |-> AllocFactor],
              !.encoded = Tup([k \in 1..AllocFactor |-> w]),
              !.wild = w]
      e == StageEntry(c, CmdStage, 1, 0, Len(cs)).ctx
  IN [e EXCEPT !.code_offset = p.code_offset, !.combining_code = p.combining_code,
               !.left_padding = p.left_padding,
               !.cluster_begin_idx = cl, !.ub = {}]

InitCmd ==
  \E n \in 0..MaxIn, room \in 0..MaxRoom, fnt \in {FontPlain, FontOtf},
     p \in Pendings, cl \in {-1, 0} :
    \E cs \in [1..n -> Chars] :
      /\ ctx = CmdCtx(cs, AllocFactor - room, fnt, p, cl, 0)
      /\ call = NoCall
      /\ RegUnused
      /\ pc = "cmd"
      /\ gstring = [glyphs |-> << >>, used |-> 0, allocated |-> 0, r2l |-> FALSE]
      /\ font = fnt
      /\ flt = 1
      /\ from = 0
      /\ to = 0
      /\ this_from = 0
      /\ this_to = 0
      /\ out = [allocated |-> AllocFactor]
      /\ i = 0
      /\ j = 0
      /\ rs = NoRs
      /\ ret = 0
      /\ wild = 0
      /\ h = [g0 |-> gstring, to0 |-> 0, nseg |-> 0, splices |-> 0, lost |-> 0,
              delta |-> 0, ub |-> {}, log |-> << >>,
              norm |-> << >>, before |-> << >>, stageout |-> << >>, ran |-> << >>, padin |-> << >>]

\* run_command (id, f, t, ctx) on a run [f, t) of the input.
ApplyCommand ==
  /\ pc = "cmd"
  /\ \E id \in CmdIds, f \in 0..Used(ctx.in) :
       \E t \in f..Used(ctx.in) :
         LET r == run_command(id, f, t, ctx)
         IN /\ call' = [id |-> id, from |-> f, to |-> t, pre |-> ctx,
                        pos |-> r.pos, post |-> r.ctx]
            /\ ctx' = r.ctx
  /\ pc' = "called"
  /\ UNCHANGED <<gstring, font, flt, from, to, this_from, this_to, out, i, j, rs,
                 ret, wild, h>>
  /\ UNCHANGED regvars

NextCmd == ApplyCommand

SpecCmd == InitCmd /\ [][NextCmd]_vars

(* ------------------------------------------------------------------ *)
(* The commands of one rule body run one after the other               *)
(* ------------------------------------------------------------------ *)
MaxSteps == 4
ClusterCmds == {CMD_ID_CLUSTER_BEGIN, CMD_ID_CLUSTER_END, CMD_ID_COPY, 300, OtfId,
                CMD_ID_SEPARATOR, CmbTcBc}
EmitCmds == {CMD_ID_COPY, 300, OtfId}

\* run_rule has matched in[from, to) and runs the commands of the rule from
\* position from; the output is empty and no cluster is open.
InitCluster ==
  \E n \in 1..MaxIn, fnt \in {FontPlain, FontOtf} :
    \E f \in 0..n :
      \E t \in f..n :
        /\ ctx = CmdCtx(Tup([k \in 1..n |-> 65]), 0, fnt,
                        [code_offset |-> 0, combining_code |-> 0, left_padding |-> 0],
                        -1, 0)
        /\ call = NoCall
        /\ RegUnused
        /\ pc = "cluster"
        /\ gstring = [glyphs |-> << >>, used |-> 0, allocated |-> 0, r2l |-> FALSE]
        /\ font = fnt
        /\ flt = 1
        /\ from = f
        /\ to = t
        /\ this_from = 0
        /\ this_to = 0
        /\ out = [allocated |-> AllocFactor]
        /\ i = 0
        /\ j = 0
        /\ rs = NoRs
        /\ ret = 0
        /\ wild = 0
        /\ h = [g0 |-> gstring, to0 |-> 0, nseg |-> 0, splices |-> 0, lost |-> 0,
                delta |-> 0, ub |-> {}, log |-> << >>,
                norm |-> << >>, before |-> << >>, stageout |-> << >>, ran |-> << >>, padin |-> << >>]

\* Lines 1530-1558: one command of the rule body; a negative result ends
\* the rule.  h.before holds the input glyph at the cluster-begin that opened
\* the cluster, h.norm the glyphs that copy, a direct code and OTF have
\* emitted since, as they were emitted, h.log each command with the pending
\* combining code it found and the glyphs it appended.
ClusterStep ==
  /\ pc = "cluster"
  /\ i < MaxSteps
  /\ \E id \in ClusterCmds :
       LET r == run_command(id, from, to, ctx)
           opens == id = CMD_ID_CLUSTER_BEGIN /\ ctx.cluster_begin_idx < 0
           emitted == Slice(r.ctx.out.glyphs, Used(ctx.out), Used(r.ctx.out))
       IN /\ call' = [id |-> id, from |-> from, to |-> to, pre |-> ctx,
                      pos |-> r.pos, post |-> r.ctx]
          /\ ctx' = r.ctx
          /\ pc' = IF r.pos < 0 THEN "failed" ELSE "cluster"
          /\ from' = IF r.pos < 0 THEN from ELSE r.pos
          /\ h' = [h EXCEPT
                     !.before = IF opens
                                THEN IF InString(ctx.in, from)
                                     THEN << ctx.in.glyphs[from + 1] >> ELSE << >>
                                ELSE @,
                     !.norm = IF opens THEN << >>
                              ELSE IF id \in EmitCmds /\ r.pos >= 0
                                      /\ ctx.cluster_begin_idx >= 0
                              THEN @ \o emitted
                              ELSE @,
                     !.log = Append(@, [id |-> id, pending |-> ctx.combining_code,
                                        emitted |-> emitted])]
  /\ i' = i + 1
  /\ UNCHANGED <<gstring, font, flt, to, this_from, this_to, out, j, rs, ret, wild>>
  /\ UNCHANGED regvars

NextCluster == ClusterStep

SpecCluster == InitCluster /\ [][NextCluster]_vars

\* Lines 1946-1965 and 1900-1923: the top command of the stage has returned
\* and the stage's output becomes the input of the next stage.
ClusterRelay ==
  /\ pc = "cluster"
  /\ ctx' = StageEntry([ctx EXCEPT !.in = [glyphs |-> ctx.out.glyphs],
                                   !.out = [glyphs |-> << >>,
                                            allocated |-> ctx.out.allocated]],
                       ctx.stage, 1, 0, Used(ctx.out)).ctx
  /\ pc' = "staged"
  /\ UNCHANGED <<gstring, font, flt, from, to, this_from, this_to, out, i, j, rs,
                 ret, wild, h, call>>
  /\ UNCHANGED regvars

NextBracket == ClusterStep \/ ClusterRelay

SpecBracket == InitCluster /\ [][NextBracket]_vars

(* ------------------------------------------------------------------ *)
(* The combining pass on one base/combining pair                       *)
(* ------------------------------------------------------------------ *)
MaxPasses == 2
CombiningCodes ==
  {MAKE_COMBINING_CODE(by, bx, ay, ax, oy, 128) :
     by \in 0..3, bx \in 0..2, ay \in 0..3, ax \in 0..2, oy \in {128, 148}}

\* The output of a final stage after get_metrics: a base glyph followed by
\* a glyph that carries a combining code; the glyph id GID_BASE + 2 has no
\* advance, GID_BASE + 66 has one.
CombinePair(code, gid) ==
  get_metrics(<< EncodeGlyph(NormGlyph(65, 0)),
                 [NormGlyph(66, 1) EXCEPT !.code = gid, !.encoded = 1, !.cmb = code] >>,
              0, 2)

InitCombine ==
  \E code \in CombiningCodes, gid \in {GID_BASE + 2, GID_BASE + 66} :
    /\ ctx = [NoCtx EXCEPT !.out = [glyphs |-> CombinePair(code, gid), allocated |-> 2],
                           !.check_mask = {"CombiningCodeMask"}]
    /\ call = NoCall
    /\ RegUnused
    /\ pc = "combine"
    /\ gstring = [glyphs |-> << >>, used |-> 0, allocated |-> 0, r2l |-> FALSE]
    /\ font = FontPlain
    /\ flt = 1
    /\ from = 0
    /\ to = 0
    /\ this_from = 0
    /\ this_to = 0
    /\ out = [allocated |-> 2]
    /\ i = 0
    /\ j = 0
    /\ rs = NoRs
    /\ ret = 0
    /\ wild = 0
    /\ h = [g0 |-> gstring, to0 |-> 0, nseg |-> 0, splices |-> 0, lost |-> 0,
            delta |-> 0, ub |-> {}, log |-> << >>,
            norm |-> << >>, before |-> ctx.out.glyphs, stageout |-> << >>, ran |-> << >>, padin |-> << >>]

\* Lines 2035-2089 applied to the glyphs of ctx->out; h.log keeps the
\* glyphs each application leaves.
CombinePass ==
  /\ pc = "combine"
  /\ i < MaxPasses
  /\ ctx' = [ctx EXCEPT !.out.glyphs = HandleCombining(ctx.out.glyphs, ctx.font).glyphs]
  /\ i' = i + 1
  /\ h' = [h EXCEPT !.log = Append(@, ctx'.out.glyphs)]
  /\ UNCHANGED <<gstring, font, flt, from, to, this_from, this_to, out, j, rs, pc,
                 ret, wild, call>>
  /\ UNCHANGED regvars

NextCombine == CombinePass

SpecCombine == InitCombine /\ [][NextCombine]_vars

(* ------------------------------------------------------------------ *)
(* Calls on the registry                                               *)
(* ------------------------------------------------------------------ *)
MaxTables == 2

OtfList == [sym |-> ":otf=deva", gsub |-> "list", gpos |-> "null"]
OtfArab == [sym |-> ":otf=arab", gsub |-> "all", gpos |-> "null"]
CatWide == << <<65, 67, CatE>> >>
CatMark == << <<66, 66, CatE>> >>

\* (generator (0 = *))
GenCopy == << LST(<<INT(0), SYM("="), SYM("*")>>) >>
\* (generator (0 nosuch)): the symbol is no command and no macro.
GenNoSuch == << LST(<<INT(0), SYM("nosuch")>>) >>
\* (generator (20 =)) and (generator (-1 =))
GenIdx20 == << LST(<<INT(20), SYM("=")>>) >>
GenIdxNeg == << LST(<<INT(-1), SYM("=")>>) >>
\* (generator (0 loop) (loop ("E" loop)))
GenSelf == << LST(<<INT(0), SYM("loop")>>),
              LST(<<SYM("loop"), LST(<<TXT("E"), SYM("loop")>>)>>) >>
\* (generator (0 ping) (ping ("E" pong)) (pong ("E" ping)))
GenMutual == << LST(<<INT(0), SYM("ping")>>),
                LST(<<SYM("ping"), LST(<<TXT("E"), SYM("pong")>>)>>),
                LST(<<SYM("pong"), LST(<<TXT("E"), SYM("ping")>>)>>) >>

Defs ==
  { TblDef("copy", TRUE, "", "unicode-bmp", NoOtf,
           <<CategorySection(CatAB), GeneratorSection(GenCopy)>>),
    TblDef("wide", TRUE, "f1", "unicode-full", NoOtf,
           <<CategorySection(CatWide), GeneratorSection(GenCopy),
             CategorySection(CatStage2), GeneratorSection(GenCopy)>>),
    TblDef("bad", TRUE, "", "unicode-bmp", NoOtf,
           <<CategorySection(CatAB), GeneratorSection(GenNoSuch)>>),
    TblDef("otf", TRUE, "", "unicode-bmp", OtfList,
           <<CategorySection(CatAB), GeneratorSection(GenCopy)>>),
    TblDef("arab", TRUE, "", "unicode-bmp", OtfArab,
           <<CategorySection(CatAB), GeneratorSection(GenCopy)>>),
    TblDef("fam", TRUE, "f2", "unicode-bmp", NoOtf,
           <<CategorySection(CatAB), GeneratorSection(GenCopy)>>),
    TblDef("iso", TRUE, "", "iso8859-1", NoOtf,
           <<CategorySection(CatAB), GeneratorSection(GenCopy)>>),
    TblDef("combining", TRUE, "", "unicode-bmp", NoOtf,
           <<CategorySection(CatMark), GeneratorSection(GenCopy)>>),
    TblDef("noprops", FALSE, "", "", NoOtf,
           <<CategorySection(CatAB), GeneratorSection(GenCopy)>>) }

Names == {d.name : d \in Defs} \cup {"none"}
RegChars == {-1, 66, 67, 70}
RegFonts == {"null", "plain", "otf"}
RegFont(n) == IF n = "otf" THEN FontOtf ELSE FontPlain

runvars == <<gstring, font, flt, from, to, this_from, this_to, out, i, j, ctx, rs,
             pc, ret, wild, h, call>>
Reg == [list |-> flt_list, min |-> flt_min_coverage, max |-> flt_max_coverage]

\* The variables of mflt_run in a program that is not inside mflt_run.
RunUnused(at) ==
  /\ pc = at
  /\ gstring = [glyphs |-> << >>, used |-> 0, allocated |-> 0, r2l |-> FALSE]
  /\ font = FontPlain
  /\ flt = 1
  /\ from = 0
  /\ to = 0
  /\ this_from = 0
  /\ this_to = 0
  /\ out = [allocated |-> 0]
  /\ i = 0
  /\ j = 0
  /\ ctx = NoCtx
  /\ rs = NoRs
  /\ ret = 0
  /\ wild = 0
  /\ h = [g0 |-> gstring, to0 |-> 0, nseg |-> 0, splices |-> 0, lost |-> 0,
          delta |-> 0, ub |-> {}, log |-> << >>,
          norm |-> << >>, before |-> << >>, stageout |-> << >>, ran |-> << >>, padin |-> << >>]
  /\ call = NoCall

\* The database lists up to MaxTables layout tables with different names.
InitReg ==
  \E n \in 0..MaxTables :
    \E base \in [1..n -> Defs] :
      /\ \A a, b \in 1..n : a # b => base[a].name # base[b].name
      /\ db = Tup(base)
      /\ flt_list = NoList
      /\ flt_min_coverage = 0
      /\ flt_max_coverage = 0
      /\ res = NoRes
      /\ gen = << >>
      /\ compiled = NoStage
      /\ cat = NoTable
      /\ RunUnused("registry")

RegCall(op, name, c, fnt, r, skipped) ==
  /\ flt_list' = r.reg.list
  /\ flt_min_coverage' = r.reg.min
  /\ flt_max_coverage' = r.reg.max
  /\ res' = [op |-> op, name |-> name, c |-> c, font |-> fnt, value |-> r.value,
             skipped |-> skipped]
  /\ UNCHANGED <<db, gen, compiled, cat>>
  /\ UNCHANGED runvars

\* mflt_get (name)
Get ==
  /\ pc = "registry"
  /\ \E name \in Names : RegCall("get", name, 0, "", mflt_get(db, Reg, name), FALSE)

\* mflt_find (c, font)
Find ==
  /\ pc = "registry"
  /\ \E c \in RegChars, f \in RegFonts :
       RegCall("find", "", c, f, mflt_find(db, Reg, c, f # "null", RegFont(f)), FALSE)

\* The table the automatic mode of mflt_run selects for a glyph string of
\* the one character c (lines 2403-2434), font->internal being NULL: the
\* character is passed by when it lies outside the coverage bounds, else the
\* table mflt_find gives is taken when it compiles.
AutoChecked(reg, q, chk) ==
  [value |-> IF chk.ok THEN chk.flt.mdb ELSE 0,
   reg |-> [reg EXCEPT !.list.tables[q] = chk.flt]]
RECURSIVE PositionOf(_, _, _)
PositionOf(tables, mdb, q) ==
  IF tables[q].mdb = mdb THEN q ELSE PositionOf(tables, mdb, q + 1)
AutoFound(base, r) ==
  IF r.value = 0 THEN r
  ELSE AutoChecked(r.reg, PositionOf(r.reg.list.tables, r.value, 1),
                   CHECK_FLT_STAGES(
                     r.reg.list.tables[PositionOf(r.reg.list.tables, r.value, 1)], base))
AutoPassesBy(reg, c) == ~(c >= reg.min /\ c <= reg.max)
AutoSelect ==
  /\ pc = "registry"
  /\ \E c \in RegChars \ {-1}, f \in RegFonts \ {"null"} :
       IF Listed(db, Reg).rc < 0
       THEN RegCall("auto", "", c, f, [value |-> 0, reg |-> Reg], TRUE)
       ELSE IF AutoPassesBy(Listed(db, Reg).reg, c)
       THEN RegCall("auto", "", c, f, [value |-> 0, reg |-> Listed(db, Reg).reg], TRUE)
       ELSE RegCall("auto", "", c, f,
                   AutoFound(db, mflt_find(db, Reg, c, TRUE, RegFont(f))), FALSE)

NextReg ==
  \/ Get
  \/ Find
  \/ AutoSelect

SpecReg == InitReg /\ [][NextReg]_vars

(* ------------------------------------------------------------------ *)
(* Compiling one generator section                                     *)
(* ------------------------------------------------------------------ *)
MaxBody == 2

\* The matchers, the commands and the macro lists the generators of the
\* model are made of.
Matchers ==
  {INT(n) : n \in {-1, 0, 1, NMATCH - 1, NMATCH, NMATCH + 1}}
  \cup {TXT("E"), TXT("E*"), TXT("("),
        LST(<<INT(65), INT(66)>>), LST(<<SYM("range"), INT(65), INT(66)>>)}
BodyElts ==
  {SYM("="), SYM("*"), SYM("<"), INT(300), SYM("loop"), SYM("ping"), SYM("alt"),
   SYM("nosuch")}
BodiesOf(n) == UNION {[1..m -> BodyElts] : m \in 1..n}
MacroLists ==
  { << >>,
    \* (loop ("E" loop))
    << LST(<<SYM("loop"), LST(<<TXT("E"), SYM("loop")>>)>>) >>,
    \* (ping ("E" pong)) (pong ("E" ping))
    << LST(<<SYM("ping"), LST(<<TXT("E"), SYM("pong")>>)>>),
       LST(<<SYM("pong"), LST(<<TXT("E"), SYM("ping")>>)>>) >>,
    \* (alt (cond ((65) =) ("E" loop))) (loop ((66) =))
    << LST(<<SYM("alt"), LST(<<SYM("cond"), LST(<<LST(<<INT(65)>>), SYM("=")>>),
                                           LST(<<TXT("E"), SYM("loop")>>)>>)>>),
       LST(<<SYM("loop"), LST(<<LST(<<INT(66)>>), SYM("=")>>)>>) >> }

\* A generator section: the entry rule (matcher and commands), then macros.
InitCompile ==
  \E m \in Matchers, body \in BodiesOf(MaxBody), macros \in MacroLists :
    /\ gen = << LST(<<m>> \o Tup(body)) >> \o macros
    /\ compiled = NoStage
    /\ cat = NoTable
    /\ db = << >>
    /\ flt_list = NoList
    /\ flt_min_coverage = 0
    /\ flt_max_coverage = 0
    /\ res = NoRes
    /\ RunUnused("compile")

\* load_generator (gen)
Compile ==
  /\ pc = "compile"
  /\ compiled' = load_generator(gen)
  /\ pc' = "compiled"
  /\ UNCHANGED <<gstring, font, flt, from, to, this_from, this_to, out, i, j, ctx, rs,
                 ret, wild, h, call>>
  /\ UNCHANGED <<db, flt_list, flt_min_coverage, flt_max_coverage, res, gen, cat>>

NextCompile == Compile

SpecCompile == InitCompile /\ [][NextCompile]_vars

(* ------------------------------------------------------------------ *)
(* One category section: load_category_table, then one lookup          *)
(* ------------------------------------------------------------------ *)
MaxSpecs == 2

\* The CATEGORY-SPECs of the model: the two of the grammar's example, specs
\* over Latin codes that overlap each other, and one whose category is not
\* alphanumeric.
CategorySpecs ==
  { LST(<<INT(2304), INT(2431), INT(CatE)>>), LST(<<INT(2364), INT(CatN)>>),
    LST(<<INT(65), INT(67), INT(CatE)>>), LST(<<INT(66), INT(CatN)>>),
    LST(<<INT(66), INT(67), INT(CatN)>>), LST(<<INT(66), INT(66), INT(CatE)>>),
    LST(<<INT(70), INT(33)>>) }
LookupCodes == {64, 65, 66, 67, 68, 2304, 2364, 2365, 2431, 2432}

InitCat ==
  \E n \in 0..MaxSpecs :
    \E specs \in [1..n -> CategorySpecs] :
      /\ gen = Tup(specs)
      /\ cat = NoTable
      /\ compiled = NoStage
      /\ db = << >>
      /\ flt_list = NoList
      /\ flt_min_coverage = 0
      /\ flt_max_coverage = 0
      /\ res = NoRes
      /\ RunUnused("category")

\* load_category_table (gen)
LoadTable ==
  /\ pc = "category"
  /\ cat' = load_category_table(gen)
  /\ pc' = IF cat'.null THEN "failed" ELSE "table"
  /\ UNCHANGED <<gstring, font, flt, from, to, this_from, this_to, out, i, j, ctx, rs,
                 ret, wild, h, call>>
  /\ UNCHANGED <<db, flt_list, flt_min_coverage, flt_max_coverage, res, gen, compiled>>

\* mchartable_lookup (table, c), as run_stages calls it to encode a glyph
Lookup ==
  /\ pc = "table"
  /\ \E c \in LookupCodes :
       res' = [op |-> "lookup", name |-> "", c |-> c, font |-> "",
               value |-> mchartable_lookup(cat.table, c), skipped |-> FALSE]
  /\ pc' = "looked"
  /\ UNCHANGED <<gstring, font, flt, from, to, this_from, this_to, out, i, j, ctx, rs,
                 ret, wild, h, call>>
  /\ UNCHANGED <<db, flt_list, flt_min_coverage, flt_max_coverage, gen, compiled, cat>>

NextCat == LoadTable \/ Lookup

SpecCat == InitCat /\ [][NextCat]_vars

(* ------------------------------------------------------------------ *)
(* Rules: one command on a run of a first stage, the stage transition, *)
(* one command on a run of the second stage                            *)
(* ------------------------------------------------------------------ *)
\* 65 is 'E', 66 is 'N'; the codes the rules emit are 'N'.
RuleCat == << <<65, 66, CatE>>, <<66, 66, CatN>>, <<300, 302, CatN>> >>

\* 0: ("E(N)E" (1 =) 300)      1: (1 =)           2: (0 = *)
\* 3: ("E(N)?" ("(E)") (1 =) (0 = *))             4: ("(E)")
\* 5: ("[EN]*" = *)            6: (0 ("(E)") * 300 *)
\* 7: (0 * =)                 8: (5 =)           9: (10 =)
\* 10: (0 ((range 65 66)) 300)                    11: ((range 65 66))
RuleStage == Stage(RuleCat,
  << RuleRegex(<<Atom({CatE}, 1, 1, 0), Atom({CatN}, 1, 1, 1), Atom({CatE}, 1, 1, 0)>>,
               <<IDX(1), 300>>),
     RuleIndex(1, <<CMD_ID_COPY>>),
     RuleIndex(0, <<CMD_ID_COPY, CMD_ID_REPEAT>>),
     RuleRegex(<<Atom({CatE}, 1, 1, 0), Atom({CatN}, 0, 1, 1)>>,
               <<IDX(4), IDX(1), IDX(2)>>),
     RuleRegex(<<Atom({CatE}, 1, 1, 1)>>, << >>),
     RuleRegex(<<Atom({CatE, CatN}, 0, 3, 0)>>, <<CMD_ID_COPY, CMD_ID_REPEAT>>),
     RuleIndex(0, <<IDX(4), CMD_ID_REPEAT, 300, CMD_ID_REPEAT>>),
     RuleIndex(0, <<CMD_ID_REPEAT, CMD_ID_COPY>>),
     RuleIndex(5, <<CMD_ID_COPY>>),
     RuleIndex(10, <<CMD_ID_COPY>>),
     RuleIndex(0, <<IDX(11), 300>>),
     RuleRange(65, 66, << >>) >>)
RuleIds == {IDX(k) : k \in 0..11} \cup {301}

\* The context of the first stage on the characters cs, as run_stages sets
\* it up for a segment of Len(cs) glyphs; w is what a read outside an array
\* gives.
RuleCtx(cs, w) ==
  LET c == [NoCtx EXCEPT
              !.in = [glyphs |-> Tup([k \in 1..Len(cs) |-> NormGlyph(cs[k], k - 1)])],
              !.out = [glyphs |-> << >>, allocated |-> AllocFactor * Len(cs)],
              !.encoded = Tup([k \in 1..(AllocFactor * Len(cs)) |-> 0]),
              !.cluster_begin_idx = -1,
              !.wild = w]
  IN StageEntry(c, RuleStage, 0, 0, Len(cs)).ctx

InitRule ==
  \E n \in 1..MaxIn, w \in WildValues :
    \E cs \in [1..n -> {65, 66}] :
      /\ ctx = RuleCtx(cs, w)
      /\ call = NoCall
      /\ RegUnused
      /\ pc = "rule"
      /\ gstring = [glyphs |-> << >>, used |-> 0, allocated |-> 0, r2l |-> FALSE]
      /\ font = FontPlain
      /\ flt = 1
      /\ from = 0
      /\ to = 0
      /\ this_from = 0
      /\ this_to = 0
      /\ out = [allocated |-> AllocFactor * n]
      /\ i = 0
      /\ j = 0
      /\ rs = NoRs
      /\ ret = 0
      /\ wild = w
      /\ h = [g0 |-> gstring, to0 |-> 0, nseg |-> 0, splices |-> 0, lost |-> 0,
              delta |-> 0, ub |-> {}, log |-> << >>,
              norm |-> << >>, before |-> << >>, stageout |-> << >>, ran |-> << >>, padin |-> << >>]

\* run_command (id, f, t, ctx) on a run [f, t) of the stage's input.
RuleCall(next) ==
  /\ \E id \in RuleIds, f \in 0..Used(ctx.in) :
       \E t \in f..Used(ctx.in) :
         LET r == run_command(id, f, t, ctx)
         IN /\ call' = [id |-> id, from |-> f, to |-> t, pre |-> ctx,
                        pos |-> r.pos, post |-> r.ctx]
            /\ ctx' = r.ctx
            /\ pc' = IF r.pos < 0 THEN "failed" ELSE next
  /\ UNCHANGED <<gstring, font, flt, from, to, this_from, this_to, out, i, j, rs,
                 ret, wild, h>>
  /\ UNCHANGED regvars

ApplyRule ==
  /\ pc = "rule"
  /\ RuleCall("ruled")

\* Lines 1955-1965 and 1900-1923: the output of a command that ran on the
\* whole input becomes the input of the next stage.
Relay ==
  /\ pc = "ruled"
  /\ call.from = 0
  /\ call.to = Used(call.pre.in)
  /\ ctx' = StageEntry([ctx EXCEPT !.in = [glyphs |-> ctx.out.glyphs],
                                   !.out = [glyphs |-> << >>,
                                            allocated |-> ctx.out.allocated],
                                   !.ub = {}, !.trace = << >>, !.steps = << >>],
                       RuleStage, 1, 0, Used(ctx.out)).ctx
  /\ pc' = "relayed"
  /\ UNCHANGED <<gstring, font, flt, from, to, this_from, this_to, out, i, j, rs,
                 ret, wild, h, call>>
  /\ UNCHANGED regvars

ApplyNext ==
  /\ pc = "relayed"
  /\ RuleCall("ruled2")

NextRule == ApplyRule \/ Relay \/ ApplyNext

SpecRule == InitRule /\ [][NextRule]_vars

(* ------------------------------------------------------------------ *)
(* Combining symbols: one symbol handed to get_combining_command       *)
(* ------------------------------------------------------------------ *)
MaxDigits == 3  \* most digits of an INTEGER written in a symbol

\* The INTEGERs written: none (the digits are omitted), 0, values below, at
\* and above the limit.
Written == {n \in {-1, 0, 10, 20, 127, 128, 1270} :
              \A q \in 1..4 : q > MaxDigits => n < 10 ^ (q - 1)}
RECURSIVE Decimal(_)
Decimal(n) == IF n < 0 THEN << >>
              ELSE IF n < 10 THEN <<DigitChars[n + 1]>>
              ELSE Decimal(n \div 10) \o <<DigitChars[(n % 10) + 1]>>
NoOff == [sign |-> "", n |-> -1]
Xoffs == {[sign |-> sg, n |-> n] : sg \in {"<", ">"}, n \in Written}
Yoffs == {[sign |-> sg, n |-> n] : sg \in {"+", "-"}, n \in Written}
Positions == {<<v, hz>> : v \in {"t", "c", "b", "B"}, hz \in {"l", "c", "r"}}

\* The forms of O: '.', XOFF, YOFF, XOFF YOFF and YOFF XOFF.
Offsets ==
  {[form |-> ".", x |-> NoOff, y |-> NoOff]}
  \cup {[form |-> "X", x |-> x, y |-> NoOff] : x \in Xoffs}
  \cup {[form |-> "Y", x |-> NoOff, y |-> y] : y \in Yoffs}
  \cup {[form |-> f, x |-> x, y |-> y] : f \in {"XY", "YX"}, x \in Xoffs, y \in Yoffs}
OffText(o) == IF o = NoOff THEN << >> ELSE <<o.sign>> \o Decimal(o.n)
\* The name of the symbol with the positions base and add and the offsets o.
CombiningName(base, o, add) ==
  base \o (CASE o.form = "." -> <<".">>
             [] o.form = "YX" -> OffText(o.y) \o OffText(o.x)
             [] OTHER -> OffText(o.x) \o OffText(o.y))
       \o add

InitSymbol ==
  \E base \in Positions, add \in {<<"b", "c">>, <<"B", "r">>, <<"t", "l">>},
     o \in Offsets :
    /\ gen = [base |-> base, o |-> o, add |-> add,
              name |-> Tup(CombiningName(base, o, add))]
    /\ compiled = NoStage
    /\ cat = NoTable
    /\ db = << >>
    /\ flt_list = NoList
    /\ flt_min_coverage = 0
    /\ flt_max_coverage = 0
    /\ res = NoRes
    /\ RunUnused("symbol")

\* get_combining_command (sym), as load_command calls it for a symbol of
\* more than one character.
LoadSymbol ==
  /\ pc = "symbol"
  /\ res' = [op |-> "combining", name |-> "", c |-> 0, font |-> "",
             value |-> get_combining_command(gen.name), skipped |-> FALSE]
  /\ pc' = "loaded"
  /\ UNCHANGED <<gstring, font, flt, from, to, this_from, this_to, out, i, j, ctx, rs,
                 ret, wild, h, call>>
  /\ UNCHANGED <<db, flt_list, flt_min_coverage, flt_max_coverage, gen, compiled, cat>>

NextSymbol == LoadSymbol

SpecSymbol == InitSymbol /\ [][NextSymbol]_vars

TypeOK == pc \in {"start", "segment", "setup", "stage", "post", "splice", "after",
                  "reverse", "done", "cmd", "called", "combine",
                  "cluster", "failed", "registry", "compile", "compiled",
                  "category", "table", "looked",
                  "rule", "ruled", "relayed", "ruled2", "staged",
                  "symbol", "loaded"}

(* ------------------------------------------------------------------ *)
(* Properties                                                          *)
(* ------------------------------------------------------------------ *)
Done == pc = "done"
Called == pc = "called"

\* The characters the caller handed in at indices lo .. hi-1 all have a
\* category in the coverage table.
AllCovered(lo, hi) ==
  \A k \in lo..(hi - 1) : mchartable_lookup(Coverage, h.g0.glyphs[k + 1].c) # 0

\* C1: mflt_run returns -2, and never a non-negative index, whenever for some
\* segment gstring->allocated < gstring->used + (output length - input length).
C1_ShortStringReturnsMinus2 == Done /\ h.lost > 0 => ret = -2

\* The attempt number of the k-th call of run_stages within its segment.
AttemptNo(k) == Cardinality({m \in 1..k : h.log[m].seg = h.log[k].seg})

\* C2: run_stages is called at most 3 times per covered segment; a result of
\* -2 doubles out.allocated and is followed by another attempt on the same
\* segment; any other negative result ends mflt_run at once with that result;
\* a third -2 ends mflt_run with -2.
C2_RetryProtocol ==
  \A k \in 1..Len(h.log) :
    LET e == h.log[k]
        last == k = Len(h.log)
    IN /\ AttemptNo(k) <= 3
       /\ (e.res = -2 /\ AttemptNo(k) < 3 /\ ~last
             => h.log[k + 1].seg = e.seg /\ h.log[k + 1].alloc = 2 * e.alloc)
       /\ (e.res = -2 /\ AttemptNo(k) < 3 /\ last
             => pc \in {"setup", "stage", "post", "splice", "after"}
                /\ out.allocated = 2 * e.alloc)
       /\ (e.res < 0 /\ e.res # -2 => last /\ Done /\ ret = e.res)
       /\ (e.res = -2 /\ AttemptNo(k) = 3 => last /\ Done /\ ret = -2)
       /\ (e.res >= 0 /\ ~last => h.log[k + 1].seg # e.seg)

\* A segment was tried three times, each time out of room, and the call ended.
C2_Witness ==
  /\ Done
  /\ ret = -2
  /\ Len(h.log) >= 3
  /\ \A k \in 1..Len(h.log) : h.log[k].res = -2

\* The emit of the call would pass out.allocated.
WouldExceed ==
  LET o == call.pre.out
  IN \/ call.id = CMD_ID_COPY /\ call.from < call.to /\ Used(o) + 1 > o.allocated
     \/ call.id >= 0 /\ Used(o) + 1 > o.allocated
     \/ call.id = CMD_ID_SEPARATOR /\ Used(o) + 1 > o.allocated
     \/ call.id = OtfId /\ ~call.pre.font.drive_otf
                        /\ Used(o) + (call.to - call.from) > o.allocated

\* C3: out.used <= out.allocated after every command; a copy-current, direct
\* code, separator or OTF pass-through without a feature engine that would
\* pass out.allocated returns -2 and leaves out.used and the output glyphs as
\* they were.
C3_OutWithinAllocated ==
  Called =>
    /\ Used(call.post.out) <= call.post.out.allocated
    /\ (WouldExceed => call.pos = -2 /\ call.post.out = call.pre.out)

\* An OTF pass-through of more glyphs than the buffer, not yet full, has room
\* for.
C3_Witness ==
  /\ Called
  /\ WouldExceed
  /\ call.id = OtfId
  /\ Used(call.pre.out) < call.pre.out.allocated
  /\ call.pos = -2

\* C4: when mflt_run returns a negative value no segment's output of that call
\* has replaced glyphs of the caller's string.
C4_NoSpliceOnFailure == Done /\ ret < 0 => h.splices = 0

\* C5: on success the result is to + the sum over the segments of (output
\* length - input length); the glyphs below from are unchanged; the glyphs that
\* were at to and above follow unchanged, in order, from the result on.
C5_ReturnsShiftedTo ==
  Done /\ ret >= 0 =>
    /\ ret = h.to0 + h.delta
    /\ \A k \in 0..(from - 1) : gstring.glyphs[k + 1] = h.g0.glyphs[k + 1]
    /\ \A k \in h.to0..(h.g0.used - 1) :
         /\ InString(gstring, ret + (k - h.to0))
         /\ gstring.glyphs[ret + (k - h.to0) + 1] = h.g0.glyphs[k + 1]

\* C6: after a successful run over a range the table covers, every character
\* index of [from, to) lies within the span of some output glyph.  Stated for
\* the left-to-right runs whose splices were all made and that read and wrote
\* inside their arrays only.
C6_EveryCharacterCovered ==
  Done /\ ret >= 0 /\ AllCovered(from, h.to0) /\ h.lost = 0 /\ h.ub = {}
       /\ ~gstring.r2l =>
    \A p \in from..(h.to0 - 1) :
      \E k \in from..(ret - 1) :
        gstring.glyphs[k + 1].from <= p /\ p <= gstring.glyphs[k + 1].to

\* The literal sequence of the called rule stands at the head of the run.
SeqStands ==
  LET codes == CmdStage.cmds[CMD_ID_TO_INDEX(call.id) + 1].codes
  IN /\ call.to - call.from >= Len(codes)
     /\ \A k \in 1..Len(codes) :
          call.pre.in.glyphs[call.from + k].code = codes[k]

\* C7: a literal-sequence rule with n+1 codes matches exactly when the run has
\* at least n+1 glyphs and their codes are the rule's; when it does not match
\* it reports no-match (0) and leaves the output buffer, the pending state and
\* the capture array as they were.
C7_SeqMatchesExactly ==
  Called /\ call.id \in SeqIds =>
    /\ (call.pos # 0) <=> SeqStands
    /\ (~SeqStands => /\ call.pos = 0
                      /\ call.post = [call.pre EXCEPT !.trace = call.post.trace])

\* A sequence of two codes fails on its second code with a pending state set.
C7_Witness ==
  /\ Called
  /\ call.id = IDX(3)
  /\ call.to - call.from >= 2
  /\ call.pre.in.glyphs[call.from + 1].code = 65
  /\ call.pre.combining_code # 0
  /\ call.pos = 0

\* The alternatives of the called cond, and the first one whose sequence
\* stands at the head of the run (0 when none does).
Alternatives == CmdStage.cmds[CMD_ID_TO_INDEX(call.id) + 1].cmd_ids
AltStands(m) ==
  LET codes == CmdStage.cmds[CMD_ID_TO_INDEX(Alternatives[m]) + 1].codes
  IN /\ call.to - call.from >= Len(codes)
     /\ \A k \in 1..Len(codes) :
          call.pre.in.glyphs[call.from + k].code = codes[k]
FirstAlt ==
  IF \E m \in 1..Len(Alternatives) : AltStands(m)
  THEN CHOOSE m \in 1..Len(Alternatives) :
         AltStands(m) /\ \A q \in 1..(m - 1) : ~AltStands(q)
  ELSE 0

\* The commands the call ran, in order.
Ran == SubSeq(call.post.trace, Len(call.pre.trace) + 1, Len(call.post.trace))

RangeRule == CmdStage.cmds[CMD_ID_TO_INDEX(RangeId) + 1]
HeadInRange ==
  /\ call.from < call.to
  /\ call.pre.in.glyphs[call.from + 1].code >= RangeRule.rfrom
  /\ call.pre.in.glyphs[call.from + 1].code <= RangeRule.rto

\* C9: (range A B) with the one direct code D, on a run whose first code c has
\* A <= c <= B and with a free element in the output, emits exactly one glyph,
\* of code D + (c - A), and consumes exactly one input glyph; on a code outside
\* the range or on an empty run it emits nothing and reports no-match.
C9_RangeOffsetsCode ==
  Called /\ call.id = RangeId =>
    /\ (HeadInRange /\ ~GDUP_full(call.pre) =>
          /\ Used(call.post.out) = Used(call.pre.out) + 1
          /\ SubSeq(call.post.out.glyphs, 1, Used(call.pre.out)) = call.pre.out.glyphs
          /\ call.post.out.glyphs[Used(call.post.out)].code =
               RangeRule.cmd_ids[1]
               + (call.pre.in.glyphs[call.from + 1].code - RangeRule.rfrom)
          /\ call.pos = call.from + 1)
    /\ (~HeadInRange => call.pos = 0 /\ call.post.out = call.pre.out)

\* The range rule has met the upper end of its range.
C9_Witness ==
  /\ Called
  /\ call.id = RangeId
  /\ HeadInRange
  /\ call.pre.in.glyphs[call.from + 1].code = RangeRule.rto
  /\ RangeRule.rto > RangeRule.rfrom
  /\ call.pos = call.from + 1

\* C10: the table whose entry rule is copy-current followed by
\* repeat-previous gives an output of the same length, codes and spans as the
\* input, in the same order: the output of the stage is the segment, and a
\* left-to-right run ends with the characters and spans of [from, to) in place.
C10_CopyRepeatIsIdentity ==
  /\ (pc = "post" /\ Tables[flt].name = "copy"
        => ctx.out.glyphs = Slice(h.before, rs.orig_from, rs.orig_to))
  /\ (Done /\ Tables[flt].name = "copy" /\ ~gstring.r2l =>
        /\ ret = h.to0
        /\ \A k \in from..(h.to0 - 1) :
             /\ gstring.glyphs[k + 1].c = h.norm[k + 1].c
             /\ gstring.glyphs[k + 1].from = k
             /\ gstring.glyphs[k + 1].to = k)

\* The copy table has run on a segment of three glyphs, not all alike.
C10_Witness ==
  /\ pc = "post"
  /\ Tables[flt].name = "copy"
  /\ Used(ctx.out) = 3
  /\ ctx.out.glyphs[1].code # ctx.out.glyphs[3].code

(* ------------------------------------------------------------------ *)
(* C11                                                                 *)
(* ------------------------------------------------------------------ *)
\* The combining pass was applied twice to a pair whose combining glyph had
\* no advance to begin with.
TwicePlaced == pc = "combine" /\ i = 2 /\ h.before[2].xadv = 0
BaseKept(k) == /\ h.log[k][1].ascent = h.before[1].ascent
               /\ h.log[k][1].descent = h.before[1].descent

ClusterClosed ==
  /\ pc = "cluster"
  /\ call.id = CMD_ID_CLUSTER_END
  /\ call.pre.cluster_begin_idx >= 0
  /\ call.pre.cluster_begin_idx < Used(call.pre.out)
  /\ Len(h.before) = 1
ClusterGlyphs ==
  Slice(ctx.out.glyphs, call.pre.cluster_begin_idx, Used(ctx.out))
SpanWithin(g, s) == s.from <= g.from /\ g.to <= s.to

\* C12: after the cluster-end every glyph emitted since the cluster-begin
\* has the same span, and that span contains the span of the input glyph at
\* the cluster-begin and the span of every glyph that copy, a direct code
\* or OTF emitted inside the cluster.
C12_ClusterSharesOneSpan ==
  ClusterClosed =>
    LET s == ClusterGlyphs[1]
    IN /\ \A k \in 1..Len(ClusterGlyphs) :
            ClusterGlyphs[k].from = s.from /\ ClusterGlyphs[k].to = s.to
       /\ SpanWithin(h.before[1], s)
       /\ \A k \in 1..Len(h.norm) : SpanWithin(h.norm[k], s)
C12_Witness ==
  /\ ClusterClosed
  /\ Len(ClusterGlyphs) >= 2
  /\ \E k \in 1..Len(h.norm) : h.norm[k].code = 300 /\ h.norm[k].to > h.before[1].to

(* ------------------------------------------------------------------ *)
(* Properties of the registry                                          *)
(* ------------------------------------------------------------------ *)
\* The last call was mflt_find with a font.
FoundWithFont == pc = "registry" /\ res.op = "find" /\ res.font # "null"

\* Table t passes the registry, family and coverage filters for the
\* arguments of the last call, and its OTF probe, if it declares one, is
\* realizable with the font.
ProbeRealizable(t, fnt) ==
  IF fnt.has_check_otf THEN t.otf.sym \in fnt.otf_ok
  ELSE t.otf.gsub # "list" /\ t.otf.gpos # "list"
Eligible(t) ==
  /\ t.registry \in {"unicode-bmp", "unicode-full"}
  /\ t.family = "" \/ t.family = RegFont(res.font).family
  /\ res.c < 0 \/ mchartable_lookup(t.coverage, res.c) # 0
  /\ t.otf.sym # "" => ProbeRealizable(t, RegFont(res.font))
EligiblePlaces == {q \in 1..Len(flt_list.tables) : Eligible(flt_list.tables[q])}
ProbePlaces == {q \in EligiblePlaces : flt_list.tables[q].otf.sym # ""}
SetMin(S) == CHOOSE x \in S : \A y \in S : x <= y

\* C13 as claimed: mflt_find with a font returns the first eligible table
\* of the scan order, NULL when none is eligible.
C13_FindFirstEligible ==
  FoundWithFont =>
    res.value = IF EligiblePlaces = {} THEN 0
                ELSE flt_list.tables[SetMin(EligiblePlaces)].mdb

\* C13 amended: mflt_find with a font returns the first eligible table that
\* declares an OTF probe if there is one, else the last eligible table of
\* the scan order, else NULL.
C13_FindPrefersProbe ==
  FoundWithFont =>
    res.value = IF ProbePlaces # {} THEN flt_list.tables[SetMin(ProbePlaces)].mdb
                ELSE IF EligiblePlaces # {}
                THEN flt_list.tables[SetMax(EligiblePlaces)].mdb
                ELSE 0
\* An eligible table with a probe was returned although an eligible table
\* without one stands before it, or the later of two eligible tables
\* without a probe was returned.
C13_Witness ==
  /\ FoundWithFont
  /\ res.value # 0
  /\ Cardinality(EligiblePlaces) >= 2
  /\ res.value # flt_list.tables[SetMin(EligiblePlaces)].mdb

\* The definition has the font properties list_flt reads and every
\* generator of it compiles.
Compiles(d) ==
  /\ d.props
  /\ \A k \in 1..Len(d.body) :
       d.body[k].sym = "generator" => ~load_generator(d.body[k].plist).null
Defined(name) == {q \in 1..Len(db) : db[q].name = name}
RegNext == [list |-> flt_list', min |-> flt_min_coverage', max |-> flt_max_coverage']
GetFailed == pc = "registry" /\ res.op = "get" /\ res.value = 0

\* The last call was mflt_get: it returned NULL if the name has no
\* definition or one that does not compile; and in every state mflt_get
\* returns each table of the database that compiles.
GetFailsSoft ==
  /\ (pc = "registry" /\ res.op = "get"
        /\ \A q \in Defined(res.name) : ~Compiles(db[q])) => res.value = 0
  /\ pc = "registry" =>
       \A q \in 1..Len(db) : Compiles(db[q]) => mflt_get(db, Reg, db[q].name).value = q
\* A call of mflt_get that returns NULL leaves the result of every
\* mflt_find as it was.
FailedGetKeepsFind ==
  (GetFailed' /\ RegNext # Reg) =>
    \A c \in RegChars, f \in RegFonts :
      mflt_find(db, RegNext, c, f # "null", RegFont(f)).value
        = mflt_find(db, Reg, c, f # "null", RegFont(f)).value

C15_UncompilableNeverReturned ==
  (pc = "registry" /\ res.op \in {"get", "find"} /\ res.value # 0)
    => Compiles(db[res.value])

\* C16: every character a registered table covers lies within the coverage
\* bounds, so the automatic mode passes no covered character by.
C16_EnvelopeBoundsCoverage ==
  pc = "registry" =>
    /\ \A k \in 1..Len(flt_list.tables) :
         \A c \in RegChars :
           mchartable_lookup(flt_list.tables[k].coverage, c) # 0
             => flt_min_coverage <= c /\ c <= flt_max_coverage
    /\ (res.op = "auto" /\ res.skipped) =>
         \A k \in 1..Len(flt_list.tables) :
           mchartable_lookup(flt_list.tables[k].coverage, res.c) = 0

(* ------------------------------------------------------------------ *)
(* Properties of the compiler                                          *)
(* ------------------------------------------------------------------ *)
EntryMatcher == gen[1].elts[1]

\* C17: a generator whose entry rule has a bare integer outside
\* 0..NMATCH-1 as matcher does not compile: load_generator gives no stage.
C17_IndexOutOfRangeRejected ==
  (pc = "compiled" /\ EntryMatcher.k = "integer"
     /\ EntryMatcher.n \notin 0..(NMATCH - 1))
    => compiled.null

\* The places (1-based) of the commands that command k of cmds names as
\* sub-commands, and the places reachable from a set of places.
SubPlaces(cmds, k) ==
  {CMD_ID_TO_INDEX(cmds[k].cmd_ids[q]) + 1 :
     q \in {r \in 1..Len(cmds[k].cmd_ids) : cmds[k].cmd_ids[r] <= CMD_ID_OFFSET_INDEX}}
RECURSIVE ReachFrom(_, _, _)
ReachFrom(cmds, S, n) ==
  IF n = 0 THEN S
  ELSE ReachFrom(cmds, S \cup UNION {SubPlaces(cmds, k) : k \in S}, n - 1)
ReachesItself(cmds, k) == k \in ReachFrom(cmds, SubPlaces(cmds, k), Len(cmds))

\* C18: no stage load_generator returns holds a command that reaches
\* itself through the ids of its sub-commands.
C18_NoCommandReachesItself ==
  (pc = "compiled" /\ ~compiled.null)
    => \A k \in 1..Len(compiled.cmds) : ~ReachesItself(compiled.cmds, k)

(* ------------------------------------------------------------------ *)
(* Properties of the right-to-left reordering                          *)
(* ------------------------------------------------------------------ *)
\* The length of the first group of seq: its first glyph and the glyphs
\* without advance that follow it.
RECURSIVE GroupLen(_, _)
GroupLen(seq, n) ==
  IF n < Len(seq) /\ seq[n + 1].xadv = 0 THEN GroupLen(seq, n + 1) ELSE n
\* The groups of seq in reverse order, each group in its own order.
RECURSIVE RevGroups(_)
RevGroups(seq) ==
  IF seq = << >> THEN << >>
  ELSE RevGroups(SubSeq(seq, GroupLen(seq, 1) + 1, Len(seq)))
       \o SubSeq(seq, 1, GroupLen(seq, 1))
Reversing == pc = "reverse" /\ gstring.r2l
\* The glyphs of [from, to) before the reordering.
Shaped == Tup([k \in 1..(to - from) |-> GREF(gstring, from + k - 1, wild)])

\* C19: the reordering of a right-to-left glyph string puts the groups of
\* [from, to) in reverse order, keeps the order inside each group and
\* leaves the glyphs outside [from, to) alone.
C19_ReversalKeepsGroups ==
  [][Reversing =>
       /\ Len(gstring'.glyphs) = Len(gstring.glyphs)
       /\ \A p \in 1..Len(gstring.glyphs) :
            gstring'.glyphs[p] = IF p > from /\ p <= to
                                 THEN RevGroups(Shaped)[p - from]
                                 ELSE gstring.glyphs[p]]_vars

(* ------------------------------------------------------------------ *)
(* Properties of the segmentation with a given table                   *)
(* ------------------------------------------------------------------ *)
CoveredGlyph(g) == mchartable_lookup(Coverage, g.c) # 0
UncoveredGlyph(g) == ~CoveredGlyph(g)
\* The glyphs of [from, to) as the call found them (after the reset of
\* lines 2386-2393) and as they are now.
GlyphsGiven == Tup([k \in 1..(h.to0 - from) |-> h.norm[from + k]])
GlyphsNow == Tup([k \in 1..(to - from) |-> GREF(gstring, from + k - 1, wild)])
PassedThrough(seq) == Tup([k \in 1..Len(seq) |-> MeasureGlyph(EncodeGlyph(seq[k]))])
\* The number of maximal runs of covered glyphs in seq.
CoveredRuns(seq) ==
  Cardinality({k \in 1..Len(seq) :
                 CoveredGlyph(seq[k]) /\ (k = 1 \/ UncoveredGlyph(seq[k - 1]))})
\* A segment is about to be given to run_stages for the first time.
SegmentGiven == pc = "setup" /\ i = 0
\* The loop over the segments has ended without an error.
SegmentsDone == pc = "reverse"

\* C20: with a given table every segment handed to run_stages is a maximal
\* run of covered glyphs, there is one segment for each such run, and the
\* uncovered glyphs stand in their order with a glyph id and metrics and
\* nothing else changed.
C20_UncoveredPassThrough ==
  /\ SegmentGiven =>
       /\ this_from < this_to
       /\ \A k \in this_from..(this_to - 1) : Covered(k)
       /\ this_to = to \/ ~Covered(this_to)
       /\ this_from = from \/ ~Covered(this_from - 1)
  /\ SegmentsDone =>
       /\ h.nseg = CoveredRuns(GlyphsGiven)
       /\ SelectSeq(GlyphsNow, UncoveredGlyph)
            = PassedThrough(SelectSeq(GlyphsGiven, UncoveredGlyph))

\* C21: a lookup returns the category of the last CATEGORY-SPEC, in definition
\* order, whose range [from, to] (to defaulting to from) contains the code, and
\* 0 when none contains it; with (0x0900 0x097F 'E') (0x093C 'N'), 0x093C maps
\* to 'N' and every other code of the range to 'E'.
SpecFrom(q) == gen[q].elts[1].n
SpecTo(q) == IF Len(gen[q].elts) = 2 THEN gen[q].elts[1].n ELSE gen[q].elts[2].n
SpecCategory(q) == gen[q].elts[Len(gen[q].elts)].n
Containing(c) == {q \in 1..Len(gen) : SpecFrom(q) <= c /\ c <= SpecTo(q)}
Devanagari == << LST(<<INT(2304), INT(2431), INT(CatE)>>), LST(<<INT(2364), INT(CatN)>>) >>
C21_LastEntryWins ==
  pc = "looked" =>
    /\ res.value = IF Containing(res.c) = {} THEN 0
                   ELSE SpecCategory(SetMax(Containing(res.c)))
    /\ gen = Devanagari =>
         res.value = IF res.c = 2364 THEN CatN
                     ELSE IF res.c \in 2304..2431 THEN CatE ELSE 0
C21_Witness ==
  /\ pc = "looked"
  /\ gen = Devanagari
  /\ res.c = 2364
  /\ res.value = CatN

\* C22: a cond whose second alternative is the direct code 301 never runs the
\* alternative after it, and when the direct code is reached (the output has a
\* free element) the cond emits exactly one glyph, of that code, at every
\* position from >= 0 of the run, from = 0 included.
RanCommand(id) == \E q \in 1..Len(Ran) : Ran[q] = id
C22_DirectAlternativeEndsCond ==
  Called /\ call.id = DirectCondId /\ ~GDUP_full(call.pre) =>
    /\ ~RanCommand(302)
    /\ RanCommand(301) =>
         /\ Used(call.post.out) = Used(call.pre.out) + 1
         /\ call.post.out.glyphs[Used(call.post.out)].code =
              call.pre.code_offset + 301

\* The same cond at a position after the first of the run.
C22_DirectAlternativeEndsCondLater ==
  Called /\ call.id = DirectCondId /\ ~GDUP_full(call.pre) /\ call.from > 0 =>
    /\ ~RanCommand(302)
    /\ RanCommand(301) =>
         /\ Used(call.post.out) = Used(call.pre.out) + 1
         /\ call.post.out.glyphs[Used(call.post.out)].code =
              call.pre.code_offset + 301

(* ------------------------------------------------------------------ *)
(* C23                                                                 *)
(* ------------------------------------------------------------------ *)
\* Command q of the rule body was one of the commands E and appended a glyph.
Appends(E, q) == h.log[q].id \in E /\ Len(h.log[q].emitted) = 1
\* A combining-placement command ran before command q, and none of the
\* commands E has appended a glyph between the two.
PlacedFor(E, q) ==
  \E p \in 1..(q - 1) :
    /\ h.log[p].id = CmbTcBc
    /\ \A m \in (p + 1)..(q - 1) : ~Appends(E, m)
PendingAfter(q) == IF q = Len(h.log) THEN ctx.combining_code ELSE h.log[q + 1].pending
\* The glyph that one of the commands E appends carries the code of the
\* combining-placement command that ran since the last such glyph, and no code
\* when none ran; no code is pending after it.
PlacementGoesToNext(E) ==
  \A q \in 1..Len(h.log) :
    Appends(E, q) =>
      /\ h.log[q].emitted[1].cmb =
           IF PlacedFor(E, q) THEN CMD_ID_TO_COMBINING_CODE(CmbTcBc) ELSE 0
      /\ PendingAfter(q) = 0

RuleCalled == pc \in {"ruled", "ruled2"}
SetMin2(S) == CHOOSE x \in S : \A y \in S : x <= y
\* The glyphs of the run of the call, and the glyphs the call appended.
RunGlyphs == {call.pre.in.glyphs[k] : k \in (call.from + 1)..call.to}
Appended == Slice(call.post.out.glyphs, Used(call.pre.out), Used(call.post.out))

\* C24: a direct code executed over a run [from, to) that holds a glyph, with
\* a free element in the output, emits one glyph and consumes no input, and
\* the span of the emitted glyph is the union of the spans of the glyphs of
\* the run: its from is their least from, its to their greatest to.
C24_DirectCodeSpansRun ==
  RuleCalled /\ call.id = 301 /\ call.from < call.to /\ ~GDUP_full(call.pre) =>
    /\ Len(Appended) = 1
    /\ call.pos = call.from
    /\ call.post.in = call.pre.in
    /\ Appended[1].from = SetMin2({g.from : g \in RunGlyphs})
    /\ Appended[1].to = SetMax({g.to : g \in RunGlyphs})

\* The same for the runs of the first stage, whose glyphs each span one
\* character, in the order of the characters.
C24_DirectCodeSpansFirstStage ==
  pc = "ruled" /\ call.id = 301 /\ call.from < call.to /\ ~GDUP_full(call.pre) =>
    /\ Len(Appended) = 1
    /\ call.pos = call.from
    /\ Appended[1].from = SetMin2({g.from : g \in RunGlyphs})
    /\ Appended[1].to = SetMax({g.to : g \in RunGlyphs})

(* ------------------------------------------------------------------ *)
(* C25                                                                 *)
(* ------------------------------------------------------------------ *)
\* The call was copy-current with a free element in the output.
CopyCalled == Called /\ call.id = CMD_ID_COPY /\ ~GDUP_full(call.pre)
\* The call appended the glyph k of its input, with the pending combining
\* code and left padding on it.
Duplicated(k) ==
  Appended = << ApplyPending(call.pre, call.pre.in.glyphs[k + 1]) >>
CopyOnRun ==
  call.from < call.to => Duplicated(call.from) /\ call.pos = call.from + 1

\* C25 as claimed: with from = to copy-current duplicates the glyph at
\* from - 1 and consumes nothing; with from < to it duplicates the glyph at
\* from and consumes one glyph.
C25_CopyAtEndDuplicatesLast ==
  CopyCalled =>
    /\ (call.from = call.to /\ call.from > 0
          => Duplicated(call.from - 1) /\ call.pos = call.from)
    /\ CopyOnRun

\* C25: with from = to copy-current appends nothing, consumes nothing and
\* leaves the context as it is; with from < to it duplicates the glyph at
\* from and consumes one glyph.
C25_CopyAtEndDoesNothing ==
  CopyCalled =>
    /\ (call.from = call.to
          => /\ Appended = << >>
             /\ call.pos = call.from
             /\ call.post = [call.pre EXCEPT !.trace = call.post.trace])
    /\ CopyOnRun

\* Copy-current was called at the end of a run of two glyphs with a combining
\* code pending.
C25_Witness ==
  /\ CopyCalled
  /\ call.from = 2
  /\ call.to = 2
  /\ call.pre.combining_code # 0
  /\ call.post.combining_code # 0
  /\ Used(call.post.out) = Used(call.pre.out)

(* ------------------------------------------------------------------ *)
(* C26                                                                 *)
(* ------------------------------------------------------------------ *)
IsSeparator(g) == g.c = -1

\* C26: the glyphs that run_stages splices into the caller's buffer after
\* its stages have succeeded hold no separator glyph (character code -1),
\* whichever stage emitted it and whether or not a later stage copied it.
C26_NoSeparatorSpliced ==
  pc = "splice" => \A k \in 1..Used(ctx.out) : ~IsSeparator(ctx.out.glyphs[k])

\* The last stage of the two-stage table has copied a separator of the first
\* stage, and the glyphs are about to be spliced.
C26_Witness ==
  /\ pc = "splice"
  /\ Tables[flt].name = "sep"
  /\ \E k \in 1..Len(h.stageout) : IsSeparator(h.stageout[k])
  /\ Used(ctx.out) >= 2

(* ------------------------------------------------------------------ *)
(* C27                                                                 *)
(* ------------------------------------------------------------------ *)
\* The call was of a rule of the stage; the sub-commands that rule itself
\* ran, in order (no rule of the stage contains a rule of the same body).
RuleWasCalled == pc \in {"ruled", "ruled2", "failed"} /\ call.id <= CMD_ID_OFFSET_INDEX
CalledRule == RuleStage.cmds[CMD_ID_TO_INDEX(call.id) + 1]
OwnSteps == SelectSeq(call.post.steps, LAMBDA e : e.ids = CalledRule.cmd_ids)
\* Sub-command q (counted from 0) is followed by repeat-previous.
Repeated(q) ==
  /\ q + 2 <= Len(CalledRule.cmd_ids)
  /\ CalledRule.cmd_ids[q + 2] = CMD_ID_REPEAT
Advanced(e) == e.pos > e.from

\* C27: repeat-previous re-runs the sub-command before it as long as that
\* sub-command advanced from, and is skipped when it comes first or when the
\* sub-command before it consumed nothing; every repetition starts at a
\* greater from; from and every result stay within the rule's narrowed to; and
\* the loop ends after at most (number of sub-commands + length of the run)
\* calls.
C27_RepeatAdvancesAndEnds ==
  RuleWasCalled =>
    LET S == OwnSteps
    IN /\ \A k \in 1..Len(S) :
            /\ S[k].i >= 0
            /\ CalledRule.cmd_ids[S[k].i + 1] # CMD_ID_REPEAT
            /\ S[k].to = S[1].to
            /\ S[k].from <= S[k].to
            /\ S[k].pos <= S[k].to
            /\ (k = Len(S) /\ S[k].pos >= 0) => ~(Repeated(S[k].i) /\ Advanced(S[k]))
       /\ \A k \in 1..(Len(S) - 1) :
            /\ S[k + 1].i >= S[k].i
            /\ (S[k + 1].i = S[k].i) <=> (Repeated(S[k].i) /\ Advanced(S[k]))
            /\ S[k + 1].i = S[k].i => S[k + 1].from > S[k].from
            /\ S[k + 1].from = IF Advanced(S[k]) THEN S[k].pos ELSE S[k].from
       /\ Len(S) <= Len(CalledRule.cmd_ids) + (IF Len(S) = 0 THEN 0 ELSE S[1].to - S[1].from)

\* ("[EN]*" = *) has copied a run of three glyphs: the copy ran three times
\* and a fourth time at the end of the run, where it consumed nothing.
C27_Witness ==
  /\ pc = "ruled"
  /\ call.id = IDX(5)
  /\ call.pos = call.from + 3
  /\ Len(OwnSteps) = 4
  /\ \A k \in 1..4 : OwnSteps[k].i = 0 /\ OwnSteps[k].from = call.from + k - 1
  /\ ~Advanced(OwnSteps[4])

(* ------------------------------------------------------------------ *)
(* C28                                                                 *)
(* ------------------------------------------------------------------ *)
\* The call was of a match rule; the capture slot it names, in the capture
\* array the call found.
MatchRuleCalled ==
  /\ pc \in {"ruled", "ruled2"}
  /\ call.id <= CMD_ID_OFFSET_INDEX
  /\ CalledRule.src_type = "SRC_INDEX"
SlotFrom == MatchIndex(call.pre, CalledRule.match_idx * 2)
SlotTo == MatchIndex(call.pre, CalledRule.match_idx * 2 + 1)

\* A match rule whose slot is set runs its sub-commands on the captured part.
MatchRuleRunsOnSlot ==
  MatchRuleCalled /\ SlotFrom >= 0 =>
    /\ Len(OwnSteps) > 0
    /\ OwnSteps[1].from = SlotFrom
    /\ \A k \in 1..Len(OwnSteps) : OwnSteps[k].to = SlotTo

\* C28: a match rule whose slot is unset fails (result 0) without running a
\* sub-command; one whose slot is set runs its sub-commands limited to the
\* captured part, and its result is the end of the captured part when
\* MATCH-IDX is zero (it consumes the whole part) and from when MATCH-IDX is
\* not zero (it consumes nothing).
C28_MatchRuleConsumesSlotZero ==
  /\ MatchRuleCalled /\ SlotFrom < 0 => call.pos = 0 /\ OwnSteps = << >>
  /\ MatchRuleRunsOnSlot
  /\ MatchRuleCalled /\ SlotFrom >= 0 =>
       call.pos = IF CalledRule.match_idx = 0 THEN SlotTo ELSE call.from

\* What the code does: the result of a match rule whose slot is set is from,
\* whatever MATCH-IDX is.
C28_MatchRuleConsumesNothing ==
  /\ MatchRuleCalled /\ SlotFrom < 0 => call.pos = 0 /\ OwnSteps = << >>
  /\ MatchRuleRunsOnSlot
  /\ MatchRuleCalled /\ SlotFrom >= 0 => call.pos = call.from

(* ------------------------------------------------------------------ *)
(* C29                                                                 *)
(* ------------------------------------------------------------------ *)
\* The call was of a regex rule on a run that ends inside the category
\* string.
RegexRuleCalled ==
  /\ pc \in {"ruled", "ruled2"}
  /\ call.id <= CMD_ID_OFFSET_INDEX
  /\ CalledRule.src_type = "SRC_REGEX"
  /\ call.to < Len(call.pre.encoded)
\* The categories of the run [from, to), and the match of the rule's pattern
\* at their head.
Restricted == Tup([k \in 1..(call.to - call.from) |-> call.pre.encoded[call.from + k]])
HeadMatch == regexec(CalledRule.pattern, Restricted)
\* The rule matched: it ran a sub-command or returned a position.
RuleMatched == call.pos # 0 \/ Len(OwnSteps) > 0
\* The calls of copy-current by the match rule (1 =).
GroupOneSteps == SelectSeq(call.post.steps, LAMBDA e : e.ids = <<CMD_ID_COPY>>)

\* C29: a regex rule applied at [from, to) matches exactly when its pattern
\* matches at offset 0 of the categories of [from, to), whatever the
\* categories from to on are; on a match its sub-commands run with to at the
\* end of the match, which is also its result, and a match rule in its body
\* finds the capture groups at their positions in the input (from added);
\* matched or not, the category string is after the call what it was before.
C29_RegexSeesOnlyItsRun ==
  RegexRuleCalled =>
    /\ RuleMatched <=> HeadMatch.result = 0
    /\ RuleMatched =>
         /\ call.pos = call.from + HeadMatch.pmatch[0][2]
         /\ \A k \in 1..Len(OwnSteps) : OwnSteps[k].to = call.pos
         /\ (call.id \in {IDX(0), IDX(3)} /\ HeadMatch.pmatch[1][1] >= 0) =>
              /\ Len(GroupOneSteps) = 1
              /\ GroupOneSteps[1].from = call.from + HeadMatch.pmatch[1][1]
              /\ GroupOneSteps[1].to = call.from + HeadMatch.pmatch[1][2]
    /\ call.post.encoded = call.pre.encoded

\* ("E(N)?" ...) was called at from = 1 on a run that ends before an 'N': the
\* rule matched the 'E' alone.
C29_Witness ==
  /\ RegexRuleCalled
  /\ call.id = IDX(3)
  /\ call.from = 1
  /\ call.to = 2
  /\ call.pre.encoded[3] = CatN
  /\ call.pos = 2
  /\ call.post.encoded[3] = CatN

(* ------------------------------------------------------------------ *)
(* C30                                                                 *)
(* ------------------------------------------------------------------ *)
\* ("E(N)?" ("(E)") (1 =) (0 = *)) was called on a run that begins with 'E'
\* 'N': the nested regex rule ("(E)") captured the 'E' as its group 1 before
\* the match rule (1 =) ran.
NestedRegexRan ==
  /\ pc \in {"ruled", "ruled2"}
  /\ call.id = IDX(3)
  /\ call.to >= call.from + 2
  /\ call.pre.encoded[call.from + 1] = CatE
  /\ call.pre.encoded[call.from + 2] = CatN

\* C30: when a rule returns a result that is not negative, the capture array
\* of the context is what it was before the call; a match rule that follows
\* a nested regex sub-rule therefore reads the group of the enclosing regex
\* rule: (1 =) copies the 'N' the enclosing rule captured, not the 'E' the
\* nested rule captured.
C30_CapturesRestored ==
  /\ (pc \in {"ruled", "ruled2"} /\ call.id <= CMD_ID_OFFSET_INDEX
        => call.post.match_indices = call.pre.match_indices)
  /\ (NestedRegexRan =>
        /\ OwnSteps[1].pos = call.from + 1
        /\ Len(GroupOneSteps) = 1
        /\ GroupOneSteps[1].from = call.from + 1
        /\ GroupOneSteps[1].to = call.from + 2
        /\ Appended[1] = call.pre.in.glyphs[call.from + 2])

C30_Witness ==
  /\ NestedRegexRan
  /\ call.from = 1
  /\ Len(Appended) = 3
  /\ Appended[1].code = 66

(* ------------------------------------------------------------------ *)
(* C31                                                                 *)
(* ------------------------------------------------------------------ *)
\* The call was of a match rule on the context a stage starts with, so
\* outside any regex rule; slot k of the capture array is the pair of
\* elements 2k and 2k + 1.
StageMatchCalled == MatchRuleCalled /\ CalledRule.match_idx \in 1..(NMATCH - 1)
SlotInside(c, k) == 2 * k + 1 < Len(c.match_indices)
SlotUnset(c, k) ==
  /\ SlotInside(c, k)
  /\ c.match_indices[2 * k + 1] = -1
  /\ c.match_indices[2 * k + 2] = -1

\* C31: the capture array a stage starts with has slot 0 set to the range of
\* the stage and the slots 1 .. NMATCH - 1 inside the array and unset, so a
\* match rule with an index in 1 .. NMATCH - 1 run on it reads inside the
\* array only, runs no sub-command and reports no match.
C31_StageCapturesInitialized ==
  pc \in {"ruled", "ruled2"} =>
    /\ call.pre.match_indices[1] = 0
    /\ call.pre.match_indices[2] = Used(call.pre.in)
    /\ \A k \in 1..(NMATCH - 1) : SlotUnset(call.pre, k)
    /\ StageMatchCalled =>
         /\ "match_indices" \notin call.post.ub
         /\ call.pos = 0
         /\ OwnSteps = << >>

\* What the code gives: the slots up to NMATCH \div 2 - 1 are inside the
\* array, and a match rule that names one of them reads initialized elements
\* and reports no match.
C31_StageCapturesFirstHalf ==
  pc \in {"ruled", "ruled2"} =>
    /\ call.pre.match_indices[1] = 0
    /\ call.pre.match_indices[2] = Used(call.pre.in)
    /\ \A k \in 1..(NMATCH \div 2 - 1) : SlotUnset(call.pre, k)
    /\ StageMatchCalled /\ CalledRule.match_idx < NMATCH \div 2 =>
         /\ "match_indices" \notin call.post.ub
         /\ call.pos = 0
         /\ OwnSteps = << >>

\* (10 =) was called at from = 1: it read beyond the array, found a position
\* there and reported a match.
C31_OutsideRead ==
  /\ StageMatchCalled
  /\ call.id = IDX(9)
  /\ call.from = 1
  /\ "match_indices" \in call.post.ub
  /\ call.pos = 1

(* ------------------------------------------------------------------ *)
(* C32                                                                 *)
(* ------------------------------------------------------------------ *)
InRunStages == pc \in {"stage", "post", "splice", "after"}
StagesOf == Tables[flt].stages
\* run_stages has returned a negative result to mflt_run.
StagesFailed == pc = "after" /\ j < 0
\* No glyph of the caller's buffer has moved since run_stages was entered.
NothingSpliced ==
  /\ Len(gstring.glyphs) = Len(h.before)
  /\ \A k \in 1..Len(h.before) :
       /\ gstring.glyphs[k].c = h.before[k].c
       /\ gstring.glyphs[k].from = h.before[k].from
       /\ gstring.glyphs[k].to = h.before[k].to

\* C32: run_stages runs the command of index 0 of the stages 0, 1, ... of
\* the table in this order, each once; every stage after the first reads
\* exactly the glyphs the stage before it wrote, as the range [0, used); a
\* stage with a negative result is the last one to run, its result is the
\* result of run_stages and the caller's buffer has nothing spliced in; with
\* no negative result all the stages of the table run.
C32_StagesRunInOrder ==
  InRunStages =>
    /\ Len(h.ran) <= Len(StagesOf)
    /\ \A q \in 1..Len(h.ran) :
         /\ h.ran[q].idx = q - 1
         /\ h.ran[q].stage = StagesOf[q]
         /\ h.ran[q].id = INDEX_TO_CMD_ID(0)
         /\ q > 1 => /\ h.ran[q].in = h.ran[q - 1].out
                     /\ h.ran[q].from = 0
                     /\ h.ran[q].to = Len(h.ran[q - 1].out)
         /\ q < Len(h.ran) => h.ran[q].result >= 0
    /\ pc = "stage" => Len(h.ran) = rs.stage_idx /\ rs.stage_idx < Len(StagesOf)
    /\ pc \in {"post", "splice"} \/ (pc = "after" /\ j >= 0) =>
         /\ Len(h.ran) = Len(StagesOf)
         /\ h.ran[Len(h.ran)].result >= 0
    /\ StagesFailed =>
         /\ Len(h.ran) >= 1
         /\ h.ran[Len(h.ran)].result = j
         /\ NothingSpliced
    /\ (Len(h.ran) >= 1 /\ h.ran[Len(h.ran)].result < 0) => StagesFailed

\* The second stage of the table "fail" ran out of room, after an attempt in
\* which the first stage had.
C32_Witness ==
  /\ StagesFailed
  /\ Tables[flt].name = "fail"
  /\ Len(h.ran) = 2
  /\ h.ran[2].result = -2
  /\ Len(h.ran[2].in) = 5
  /\ Len(h.log) = 1
  /\ h.log[1].res = -2

(* ------------------------------------------------------------------ *)
(* C33                                                                 *)
(* ------------------------------------------------------------------ *)
\* The padding pass has run on the output of the last stage; h.padin holds
\* the glyphs it found.
Padded == pc = "splice" /\ Used(ctx.out) > 0
\* What a glyph with the left-padding flag is moved by.
LeftShift(g) == IF g.lpad # 0 /\ g.lbearing < 0 THEN -g.lbearing ELSE 0
Widened(g) == IF g.rpad # 0 /\ g.rbearing > g.xadv THEN g.rbearing ELSE g.xadv

\* C33: after the padding pass a glyph without a combining code that has the
\* right-padding flag has xadv >= rbearing, one that has the left-padding
\* flag has lbearing >= 0, and the left padding has added the negated
\* left bearing the glyph came with to xoff, xadv and rbearing alike; glyphs
\* with a combining code and all other fields are as the pass found them.
C33_PaddingWidens ==
  Padded =>
    /\ Len(ctx.out.glyphs) = Len(h.padin)
    /\ \A k \in 1..Len(h.padin) :
         LET g == ctx.out.glyphs[k]
             g0 == h.padin[k]
         IN IF g0.cmb # 0 THEN g = g0
            ELSE /\ g.rpad # 0 => g.xadv >= g.rbearing
                 /\ g.lpad # 0 => g.lbearing >= 0
                 /\ g.xoff = g0.xoff + LeftShift(g0)
                 /\ g.rbearing = g0.rbearing + LeftShift(g0)
                 /\ g.xadv = Widened(g0) + LeftShift(g0)
                 /\ g.lbearing = g0.lbearing + LeftShift(g0)
                 /\ g = [g0 EXCEPT !.xoff = g.xoff, !.xadv = g.xadv,
                                   !.rbearing = g.rbearing, !.lbearing = g.lbearing]

\* A glyph with both flags and a negative left bearing was widened and
\* moved, next to one with the right-padding flag alone.
C33_Witness ==
  /\ Padded
  /\ Tables[flt].name = "pad"
  /\ \E k \in 1..Len(h.padin) :
       /\ h.padin[k].lpad # 0 /\ h.padin[k].rpad # 0 /\ h.padin[k].lbearing < 0
       /\ ctx.out.glyphs[k].xoff > 0
       /\ ctx.out.glyphs[k].xadv = ctx.out.glyphs[k].rbearing
  /\ \E k \in 1..Len(h.padin) :
       /\ h.padin[k].lpad = 0 /\ h.padin[k].rpad # 0
       /\ ctx.out.glyphs[k].xadv > h.padin[k].xadv

(* ------------------------------------------------------------------ *)
(* C34                                                                 *)
(* ------------------------------------------------------------------ *)
SymbolLoaded == pc = "loaded"
\* The offset a written XOFF or YOFF stands for: the INTEGER with its sign
\* ('<' and '-' are the minus signs), limited to 127, 5 when the digits are
\* omitted, and 0 when the offset is not written at all.
Meant(o) ==
  IF o = NoOff THEN 0
  ELSE (IF o.sign \in {"<", "-"} THEN -1 ELSE 1)
       * (IF o.n < 0 THEN 5 ELSE IF o.n > 127 THEN 127 ELSE o.n)
LoadedCode == CMD_ID_TO_COMBINING_CODE(res.value)
InCombiningRange(id) == id <= CMD_ID_OFFSET_COMBINING /\ id > CMD_ID_OFFSET_INDEX
PositionsDecoded ==
  /\ COMBINING_CODE_BASE_Y(LoadedCode) = PlaceIn(<<"t", "c", "b", "B">>, gen.base[1], 0)
  /\ COMBINING_CODE_BASE_X(LoadedCode) = PlaceIn(<<"l", "c", "r">>, gen.base[2], 0)
  /\ COMBINING_CODE_ADD_Y(LoadedCode) = PlaceIn(<<"t", "c", "b", "B">>, gen.add[1], 0)
  /\ COMBINING_CODE_ADD_X(LoadedCode) = PlaceIn(<<"l", "c", "r">>, gen.add[2], 0)

\* C34: a symbol V H O V H, O being '.', an XOFF, a YOFF or an XOFF followed
\* by a YOFF, loads as a command id of the combining range whose code
\* decodes to the positions written and to the offsets written, each limited
\* to 127 and 5 when its digits are omitted.
C34_CombiningSymbolLoads ==
  SymbolLoaded /\ gen.o.form \in {".", "X", "Y", "XY"} =>
    /\ InCombiningRange(res.value)
    /\ PositionsDecoded
    /\ COMBINING_CODE_OFF_X(LoadedCode) = Meant(gen.o.x)
    /\ COMBINING_CODE_OFF_Y(LoadedCode) = Meant(gen.o.y)

\* What the code reads: the YOFF before the XOFF, and an INTEGER 0 as 5.  A
\* symbol with the XOFF first and a YOFF after it is no combining symbol.
ReadAs(o) == IF o # NoOff /\ o.n = 0 THEN [o EXCEPT !.n = -1] ELSE o
C34_YoffBeforeXoff ==
  SymbolLoaded =>
    IF gen.o.form = "XY" THEN res.value = 0
    ELSE /\ InCombiningRange(res.value)
         /\ PositionsDecoded
         /\ COMBINING_CODE_OFF_X(LoadedCode) = Meant(ReadAs(gen.o.x))
         /\ COMBINING_CODE_OFF_Y(LoadedCode) = Meant(ReadAs(gen.o.y))
         /\ (gen.name = <<"t", "c", ".", "b", "c">> => res.value = CmbTcBc)

\* 'Bl<20-10Br', the example of the grammar, was handed in and refused.
C34_ExampleRefused ==
  /\ SymbolLoaded
  /\ gen.name = <<"B", "l", "<", "2", "0", "-", "1", "0", "B", "r">>
  /\ res.value = 0

(* ------------------------------------------------------------------ *)
(* C35                                                                 *)
(* ------------------------------------------------------------------ *)
\* The input glyphs the segment loop has still to look at.
Remaining == to - this_from
\* An iteration of the segment loop begins with pc = "segment"; it ends the
\* loop, or delimits a segment that is not empty and hands it to run_stages.
SegmentStep ==
  pc = "segment" =>
    \/ pc' = "reverse"
    \/ /\ pc' = "setup"
       /\ this_from' >= this_from
       /\ this_to' > this_from'
       /\ this_to' <= to
       /\ to' = to
\* The attempts on a segment leave the range and the segment alone.
AttemptStep ==
  pc \in {"setup", "stage", "post", "splice"} =>
    /\ pc' \in {"stage", "post", "splice", "after"}
    /\ <<to', this_from', this_to'>> = <<to, this_from, this_to>>
\* After the attempts the loop retries, returns, or goes on behind the
\* segment with fewer glyphs left.
IterationEnd ==
  pc = "after" =>
    \/ pc' = "setup" /\ i' = i + 1 /\ i' < MaxAttempts
         /\ <<to', this_from', this_to'>> = <<to, this_from, this_to>>
    \/ pc' = "done"
    \/ /\ pc' = "segment"
       /\ to' - this_from' = to - this_to
       /\ to' - this_from' < Remaining
       /\ to' - this_from' >= 0

\* A measure of the work mflt_run has left: the glyphs left count most, then
\* the attempts left on the segment, then the place inside the attempt.
PhaseSize == (MaxAttempts + 2) * 16
Phase ==
  CASE pc = "setup" -> (MaxAttempts - i) * 16 + 10
    [] pc = "stage" -> (MaxAttempts - i) * 16 + 9 - rs.stage_idx
    [] pc = "post" -> (MaxAttempts - i) * 16 + 5
    [] pc = "splice" -> (MaxAttempts - i) * 16 + 4
    [] pc = "after" -> (MaxAttempts - i) * 16 + 3
    [] OTHER -> 0
Rank ==
  CASE pc = "done" -> 0
    [] pc = "reverse" -> 1
    [] pc = "start" -> (to - from + 2) * PhaseSize
    [] pc = "segment" -> (Remaining + 1) * PhaseSize - 1
    [] OTHER -> Remaining * PhaseSize + Phase

C36_EncodedIndicesInBounds == "encoded" \notin ctx.ub

\* The smallest failing call: one glyph at index 3 gives a buffer of four
\* elements and a terminator written at index 4.
C36_TerminatorOutside ==
  /\ "encoded" \in ctx.ub
  /\ from = 3
  /\ h.to0 = 4
  /\ Len(ctx.encoded) = 4
  /\ rs.stage_idx = 0

(* ------------------------------------------------------------------ *)
(* C37: the indices of the coverage repair                              *)
(* ------------------------------------------------------------------ *)
\* C37: in the coverage repair of run_stages every index used on g_indices
\* is in [0, len), len being the number of elements it was allocated with,
\* and every glyph index read from g_indices and used on the output buffer
\* is in [0, out.used).  len is the last character position minus the first,
\* one less than the number of positions of the inclusive spans, so the
\* statement fails as soon as a glyph covers the last position.
C37_RepairIndicesInBounds == ctx.ub \cap {"g_indices", "out"} = {}

\* A segment of one glyph: g_indices has no element and index 0 is written.
C37_NoElementWritten ==
  /\ pc = "splice"
  /\ rs.len = 0
  /\ "g_indices" \in ctx.ub

\* The value found behind g_indices is used as a glyph index of the output.
C37_GlyphIndexOutside ==
  /\ pc = "splice"
  /\ rs.len = 1
  /\ ctx.ub = {"g_indices", "out"}

(* ------------------------------------------------------------------ *)
(* C38: clusters and the ends of clusters and stages                    *)
(* ------------------------------------------------------------------ *)
\* C38: every executed cluster-end leaves no cluster open, also when no glyph
\* was emitted since the cluster-begin, and every stage starts with no open
\* cluster, so that a later cluster-begin starts a new cluster with its own
\* begin position.
C38_ClusterEndAndStageClose ==
  /\ (pc = "cluster" /\ call.id = CMD_ID_CLUSTER_END => ctx.cluster_begin_idx < 0)
  /\ (pc = "staged" => ctx.cluster_begin_idx < 0)

\* A cluster-end right after the cluster-begin leaves the cluster open.
C38_EmptyClusterStaysOpen ==
  /\ pc = "cluster"
  /\ call.id = CMD_ID_CLUSTER_END
  /\ call.pre.cluster_begin_idx = Used(call.pre.out)
  /\ ctx.cluster_begin_idx >= 0

\* A cluster-begin executed after a cluster-end keeps the begin position of
\* the cluster-begin before it, not that of the glyph it stands at.
C38_BeginKeepsOldPosition ==
  /\ pc = "cluster"
  /\ call.id = CMD_ID_CLUSTER_BEGIN
  /\ \E k \in 1..Len(h.log) : h.log[k].id = CMD_ID_CLUSTER_END
  /\ InString(ctx.in, call.from)
  /\ ctx.cluster_begin_pos # GREF(ctx.in, call.from, ctx.wild).from

\* The next stage is entered with the cluster of the stage before it open.
C38_OpenAcrossStages ==
  /\ pc = "staged"
  /\ ctx.cluster_begin_idx >= 0

(* ------------------------------------------------------------------ *)
(* C39: what an attempt without room leaves behind                      *)
(* ------------------------------------------------------------------ *)
\* C39: an attempt of run_stages that returns -2 leaves the caller's glyphs
\* of the segment [this_from, this_to) as they were when the attempt began
\* (code, encoded flag, span, metrics), so that the retry with a doubled
\* buffer starts from the same input.
C39_FailedAttemptKeepsInput ==
  pc = "after" /\ j = -2 =>
    Slice(gstring.glyphs, this_from, this_to) = Slice(h.before, this_from, this_to)

\* A retry starts its first stage on a segment that holds a glyph the
\* attempt before it has already turned into a glyph id.
C39_RetryReadsChangedInput ==
  /\ pc = "stage"
  /\ i > 0
  /\ rs.stage_idx = 0
  /\ \E k \in (this_from + 1)..this_to : gstring.glyphs[k].encoded = 1

\* The table "retry" on the glyphs 66 65: the first attempt runs out of room
\* after the feature engine has handled 66, the retry no longer matches the
\* rule (66) and the whole segment is replaced by nothing, where a buffer
\* large enough at the first attempt gives nine glyphs.
C39_RetryYieldsOtherOutput ==
  /\ pc = "done"
  /\ ret = 0
  /\ Tables[flt].name = "retry"
  /\ h.to0 - from = 2
  /\ h.norm[from + 1].c = 66
  /\ h.norm[from + 2].c = 65
  /\ \E k \in 1..Len(h.log) : h.log[k].res = -2
  /\ to = from

(* ------------------------------------------------------------------ *)
(* C40: the code offset of a range rule                                 *)
(* ------------------------------------------------------------------ *)
OffsetRuleId == IDX(10)
BareRangeId == IDX(11)

\* C40: the code offset set by a range rule is 0 again when the rule
\* returns, also when none of its sub-commands emits a glyph, so that a
\* direct code that runs after the rule has returned emits exactly its
\* literal code.
C40_OffsetEndsWithRule ==
  /\ (pc \in {"ruled", "ruled2"} /\ call.id = BareRangeId /\ call.pos > call.from
        => ctx.code_offset = 0)
  /\ (pc \in {"ruled", "ruled2"} /\ call.id = OffsetRuleId /\ call.pos >= 0
        => \A k \in (Used(call.pre.out) + 1)..Used(ctx.out) :
             ctx.out.glyphs[k].code = 300)

\* ((range 65 66)) has matched the code 66 and returned: the offset 1 is
\* still pending.
C40_OffsetOutlivesRule ==
  /\ pc \in {"ruled", "ruled2"}
  /\ call.id = BareRangeId
  /\ call.pos = call.from + 1
  /\ ctx.code_offset = 1

\* (0 ((range 65 66)) 300) on a run that starts with 66: the direct code 300
\* that follows the range rule is emitted as 301.
C40_LaterCodeShifted ==
  /\ pc \in {"ruled", "ruled2"}
  /\ call.id = OffsetRuleId
  /\ Used(ctx.out) = Used(call.pre.out) + 1
  /\ ctx.out.glyphs[Used(ctx.out)].code = 301
  /\ ctx.code_offset = 0

====
